---- MODULE Spec2Model ----
(***************************************************************************)
(* A model of the lockfile, the package sync spec, the parallel resolver   *)
(* and the install pipeline of lux.                                        *)
(*                                                                         *)
(* Three specifications share the variables:                               *)
(*   SpecLock     the write operations of a lockfile write session         *)
(*   SpecSync     package_sync_spec applied to bounded lockfile bodies     *)
(*   SpecInstall  one resolve-and-install run                              *)
(***************************************************************************)
EXTENDS Integers, Sequences, FiniteSets, TLC

VARIABLES
    lock,        \* Lockfile.lock : LocalPackageLock = [rocks, entrypoints]
    lastOp,      \* the write operation that produced `lock`, with its arguments
    syncPc,      \* "init" | "returned" | "overflow"
    syncReqs,    \* the argument `packages` of package_sync_spec
    syncOut,     \* the PackageSyncSpec that package_sync_spec returned, with its outcome
    manifest,    \* the package db: the rockspec of every package name
    requested,   \* the argument `packages` of the install run
    buildLock,   \* the lock of the build lockfile
    tasks,       \* the spawned resolver tasks, by their place in the call tree
    channels,    \* the install specs sent on each unbounded channel, in order
    pc,          \* where the install run is
    failures,    \* how many tasks have failed so far
    checks,      \* history: which lockfile each call was filtered against
    emitted,     \* history: which task sent on which channel
    all_packages,        \* the install specs the run received, by id
    builds,              \* the result of the build task of each id
    installed_packages,  \* the packages the builds returned, by id
    written,             \* the ids whose packages are written to the lockfile
    disk,        \* the body of the lockfile as the file on disk holds it
    session,     \* the write session: how it was opened, its end, the result of
                 \* its flush and the result handed to the caller
    query,       \* the last read operation, its argument, the lock it read
                 \* and what it returned
    fetch        \* a call of get_manifest: the server, the requests sent,
                 \* the cache file and the result

lockVars == <<lock, lastOp>>
syncVars == <<syncPc, syncReqs, syncOut>>
sessionVars == <<disk, session>>
readVars == <<query>>
fetchVars == <<fetch>>
resolveVars == <<manifest, requested, buildLock, tasks, channels, failures, checks, emitted>>
pipelineVars == <<all_packages, builds, installed_packages, written>>
installVars == <<resolveVars, pipelineVars, pc>>

-----------------------------------------------------------------------------
(* Bounds of the model *)

\* longest dependencies list a rock is grown to by add_dependency
MaxDeps == 2
\* longest entrypoints list grown by add_entrypoint
MaxEntrypoints == 2
\* longest list of declared requirements handed to package_sync_spec
MaxReqs == 2
\* most dependency edges of a package db
MaxEdges == 2
\* most tasks that fail in one install run
MaxFailures == 1

-----------------------------------------------------------------------------
(* Option<T> *)

None == <<>>
Some(x) == <<x>>

(* Sequences as the code uses them *)

Range(s) == {s[i] : i \in DOMAIN s}

RECURSIVE SetToSeq(_)
SetToSeq(S) ==
    IF S = {} THEN <<>>
    ELSE LET x == CHOOSE y \in S : TRUE IN <<x>> \o SetToSeq(S \ {x})

\* Vec::remove(index)
RemoveAt(s, index) ==
    [i \in 1..(Len(s) - 1) |-> IF i < index THEN s[i] ELSE s[i + 1]]

\* Iterator::position: the first index whose element is x, 0 for None
Position(s, x) ==
    IF \E i \in DOMAIN s : s[i] = x
    THEN CHOOSE i \in DOMAIN s : s[i] = x /\ \A j \in 1..(i - 1) : s[j] # x
    ELSE 0

SeqsUpTo(S, n) == UNION {[1..k -> S] : k \in 0..n}

-----------------------------------------------------------------------------
(* PackageVersionReq and LockConstraint *)

\* PackageVersionReq::Any; every other requirement is written as its text
ReqAny == "any"

is_any(req) == req = ReqAny

\* Display for PackageVersionReq
ReqToString(req) == req

\* FromStr for PackageVersionReq: no text parses to Any, "any" is a StringVer
ReqParse(text) == IF text = "any" THEN "==any" ELSE text

\* LockConstraint::Unconstrained and LockConstraint::Constrained(req)
Unconstrained == None
Constrained(req) == Some(req)

\* From<PackageVersionReq> for LockConstraint
LockConstraintFrom(req) == IF is_any(req) THEN Unconstrained ELSE Constrained(req)

\* TryFrom<&Option<String>> for LockConstraint
LockConstraintTryFrom(constraint) ==
    IF constraint = None THEN Unconstrained ELSE Constrained(ReqParse(constraint[1]))

matches_version_req(constraint, req) ==
    IF constraint = Unconstrained THEN is_any(req) ELSE constraint[1] = req

-----------------------------------------------------------------------------
(* LocalPackageId, LocalPackageSpec, LocalPackage *)

BoolStr(b) == IF b THEN "true" ELSE "false"

\* The SHA-256 of the concatenated fields; the digest is taken to be
\* injective on its input, so the input stands for the id.
LocalPackageIdNew(name, version, pinned, opt, constraint) ==
    name \o version \o BoolStr(pinned) \o BoolStr(opt)
         \o (IF constraint = Unconstrained THEN "" ELSE ReqToString(constraint[1]))

LocalPackageSpecNew(name, version, constraint, dependencies, pinned, opt) ==
    [name |-> name, version |-> version, pinned |-> pinned, opt |-> opt,
     dependencies |-> dependencies,
     constraint |-> IF constraint = Unconstrained THEN None
                    ELSE Some(ReqToString(constraint[1]))]

\* LocalPackageSpec::id and LocalPackage::id
PkgId(pkg) ==
    LocalPackageIdNew(pkg.name, pkg.version, pkg.pinned, pkg.opt,
                      LockConstraintTryFrom(pkg.constraint))

\* LocalPackageSpec::constraint
PkgConstraint(pkg) == LockConstraintTryFrom(pkg.constraint)

\* LocalPackage::from: a package as a build returns it, with no dependencies
LocalPackageFrom(name, version, constraint) ==
    LocalPackageSpecNew(name, version, constraint, <<>>, FALSE, FALSE)

-----------------------------------------------------------------------------
(* LocalPackageLock and the write operations of Lockfile<ReadWrite> *)

\* LocalPackageLock::default
EmptyLock == [rocks |-> <<>>, entrypoints |-> <<>>]

RockIds(l) == DOMAIN l.rocks

get(l, id) == IF id \in RockIds(l) THEN Some(l.rocks[id]) ELSE None

is_entrypoint(l, id) == \E i \in DOMAIN l.entrypoints : l.entrypoints[i] = id

\* BTreeMap::insert
RocksInsert(rocks, id, rock) ==
    [i \in DOMAIN rocks \cup {id} |-> IF i = id THEN rock ELSE rocks[i]]

\* BTreeMap::remove
RocksRemove(rocks, id) == [i \in DOMAIN rocks \ {id} |-> rocks[i]]

\* mutant of add: the entry is overwritten (insert in place of or_insert_with)
add_overwrites(l, rock) == [l EXCEPT !.rocks = RocksInsert(@, PkgId(rock), rock)]

\* Lockfile<ReadWrite>::add: entry(id).or_insert_with(rock)
add(l, rock) ==
    IF PkgId(rock) \in RockIds(l) THEN l
    ELSE [l EXCEPT !.rocks = RocksInsert(@, PkgId(rock), rock)]

add_entrypoint(l, rock) ==
    [add(l, rock) EXCEPT !.entrypoints = Append(@, PkgId(rock))]

remove_entrypoint(l, rock) ==
    LET index == Position(l.entrypoints, PkgId(rock))
    IN IF index # 0 THEN [l EXCEPT !.entrypoints = RemoveAt(@, index)] ELSE l

add_dependency(l, target, dependency) ==
    LET tid == PkgId(target)
        pushed(rock) ==
            [rock EXCEPT !.dependencies = Append(@, PkgId(dependency))]
        modified ==
            IF tid \in RockIds(l)
            THEN [l EXCEPT !.rocks[tid] = pushed(@)]
            ELSE [l EXCEPT !.rocks = RocksInsert(@, tid, pushed(target))]
    IN add(modified, dependency)

\* mutant of remove_by_id: the retain on entrypoints is left out
remove_by_id_rocks_only(l, target) == [l EXCEPT !.rocks = RocksRemove(@, target)]

remove_by_id(l, target) ==
    [rocks |-> RocksRemove(l.rocks, target),
     entrypoints |-> SelectSeq(l.entrypoints, LAMBDA x : x # target)]

remove(l, target) == remove_by_id(l, PkgId(target))

-----------------------------------------------------------------------------
(* Reading a LocalPackageLock: list, has_rock_with_equal_constraint,       *)
(* get_all_dependencies and package_sync_spec                              *)

\* BTreeMap::values: the rocks in the order of their keys. The keys are
\* SHA-256 digests; their order is some fixed total order on the ids.
RockValues(l) ==
    LET keys == SetToSeq(RockIds(l))
    IN [i \in DOMAIN keys |-> l.rocks[keys[i]]]

\* LocalPackageLock::list: into_group_map keeps the order of the values
list(l, name) == SelectSeq(RockValues(l), LAMBDA rock : rock.name = name)

\* Iterator::rev().find() on the elements that pass the test: the last of them
LastOf(hits) == IF hits = <<>> THEN None ELSE Some(hits[Len(hits)])

\* mutant of has_rock_with_equal_constraint: the name of the requirement is
\* not looked at
has_rock_with_equal_constraint_any_name(l, req) ==
    LastOf(SelectSeq(RockValues(l),
            LAMBDA package : matches_version_req(PkgConstraint(package), req.version_req)))

\* mutant of has_rock_with_equal_constraint: an Unconstrained rock is not
\* taken as equal to a requirement of Any
has_rock_with_equal_constraint_strict(l, req) ==
    LastOf(SelectSeq(list(l, req.name),
            LAMBDA package : /\ PkgConstraint(package) # Unconstrained
                             /\ PkgConstraint(package)[1] = req.version_req))

has_rock_with_equal_constraint(l, req) ==
    LastOf(SelectSeq(list(l, req.name),
            LAMBDA package : matches_version_req(PkgConstraint(package), req.version_req)))

\* The recursion of get_all_dependencies has no visited set. Once it is
\* deeper than the number of rocks, a rock is on the call path twice and the
\* recursion never ends: the result is then marked as a stack overflow.
RECURSIVE get_all_dependencies_at(_, _, _)
get_all_dependencies_at(l, id, depth) ==
    IF depth > Cardinality(RockIds(l)) THEN [overflow |-> TRUE, packages |-> {}]
    ELSE IF get(l, id) = None THEN [overflow |-> FALSE, packages |-> {}]
    ELSE LET local_pkg == l.rocks[id]
             below == {get_all_dependencies_at(l, dep, depth + 1) :
                          dep \in Range(local_pkg.dependencies)}
         IN [overflow |-> \E b \in below : b.overflow,
             packages |-> {local_pkg} \cup UNION {b.packages : b \in below}]

\* mutant of get_all_dependencies: the package alone, its dependencies are
\* not walked
get_all_dependencies_itself(l, id) ==
    [overflow |-> FALSE,
     packages |-> IF get(l, id) = None THEN {} ELSE {l.rocks[id]}]

get_all_dependencies(l, id) == get_all_dependencies_at(l, id, 1)

\* PackageSyncSpec::default, before package_sync_spec has run
NoSyncSpec == [outcome |-> "init", to_add |-> <<>>, to_remove |-> <<>>]

\* package_sync_spec; outcome "panic" is the expect on an entrypoint that is
\* missing from rocks, "overflow" the unbounded recursion of the walk
package_sync_spec(l, packages) ==
    LET missing == \E i \in DOMAIN l.entrypoints : get(l, l.entrypoints[i]) = None
        entrypoints_to_keep ==
            {l.rocks[id] : id \in
                {e \in Range(l.entrypoints) :
                    \E i \in DOMAIN packages :
                        matches_version_req(PkgConstraint(l.rocks[e]),
                                            packages[i].version_req)}}
        walks == {get_all_dependencies(l, PkgId(local_pkg)) :
                     local_pkg \in entrypoints_to_keep}
        packages_to_keep == UNION {w.packages : w \in walks}
        to_add ==
            SelectSeq(packages,
                      LAMBDA pkg : has_rock_with_equal_constraint(l, pkg) = None)
        to_remove ==
            SelectSeq(RockValues(l), LAMBDA pkg : pkg \notin packages_to_keep)
    IN IF missing
       THEN [outcome |-> "panic", to_add |-> <<>>, to_remove |-> <<>>]
       ELSE IF \E w \in walks : w.overflow
       THEN [outcome |-> "overflow", to_add |-> <<>>, to_remove |-> <<>>]
       ELSE [outcome |-> "returned", to_add |-> to_add, to_remove |-> to_remove]

-----------------------------------------------------------------------------
(* The resolver: Resolve and do_get_all_dependencies                       *)

\* the versions of the model as Display writes them, in the order of Ord for
\* PackageVersion (the semver, then the specrev)
Versions == <<"1.0-1", "1.0-2", "2.0-1", "51.0-1">>

\* the version the package db holds of every package
Version == "1.0-1"

\* semver: the requirement texts of the model and the version they admit
Satisfies ==
    {<<">=1.0", version>> : version \in Range(Versions)}
        \cup {<<"<2.0", version>> : version \in {"1.0-1", "1.0-2"}}

\* PackageVersionReq::matches
matches(req, version) == is_any(req) \/ <<req, version>> \in Satisfies

\* PackageReq
PackageReq(name, version_req) == [name |-> name, version_req |-> version_req]

\* LocalPackageLock::has_rock with no filter
has_rock(l, req) ==
    LastOf(SelectSeq(list(l, req.name),
                     LAMBDA package : matches(req.version_req, package.version)))

\* PackageInstallSpec::new(..).build_behaviour(..).pin(..).opt(..).build()
PackageInstallSpecNew(package, entry_type, build_behaviour, pin, opt) ==
    [package |-> package, build_behaviour |-> build_behaviour, pin |-> pin,
     opt |-> opt, entry_type |-> entry_type, constraint |-> None]

\* the channels and the lockfiles a Resolve holds, named by what they are
Resolve(dependencies_tx, build_dependencies_tx, lockfile, build_lockfile) ==
    [dependencies_tx |-> dependencies_tx,
     build_dependencies_tx |-> build_dependencies_tx,
     lockfile |-> lockfile, build_lockfile |-> build_lockfile]

\* the Resolve of an install run
TopResolve == Resolve("dependencies", "build_dependencies", "lockfile", "build_lockfile")

\* mutant of BuildResolve: the build dependencies are filtered against the
\* lockfile of the package that needs them
BuildResolveOwnLockfile(args) ==
    Resolve(args.build_dependencies_tx, args.build_dependencies_tx,
            args.lockfile, args.build_lockfile)

\* the Resolve a task builds for its build dependencies
BuildResolve(args) ==
    Resolve(args.build_dependencies_tx, args.build_dependencies_tx,
            args.build_lockfile, args.build_lockfile)

\* the Resolve a task builds for its regular dependencies
DependenciesResolve(args) ==
    Resolve(args.dependencies_tx, args.build_dependencies_tx,
            args.lockfile, args.build_lockfile)

\* the Arc<Lockfile> behind a name; no task writes to it during the pass
LockfileOf(which) == IF which = "lockfile" THEN lock ELSE buildLock

\* a task is named by the calls that lead to it: the last element is the
\* call that spawned it and its index among the packages the call kept
ChildTask(p, call, i) == Append(p, [call |-> call, index |-> i])

IsAncestor(q, p) == Len(q) < Len(p) /\ SubSeq(p, 1, Len(q)) = q

\* the results of a task
NotYet == [tag |-> "none", id |-> ""]
Ok(id) == [tag |-> "Ok", id |-> id]
Err == [tag |-> "Err", id |-> ""]
JoinError == [tag |-> "JoinError", id |-> ""]

\* tokio::spawn(async move { .. }) of one package
SpawnTask(package, args) ==
    [spec |-> package, args |-> args, state |-> "spawned", result |-> NotYet,
     build_dependencies |-> 0, dependencies |-> 0]

\* mutant of NotInstalled: the lockfile is not asked
NotInstalledUnasked(args, packages) == packages

\* the filter of do_get_all_dependencies: packages that are not installed yet
NotInstalled(args, packages) ==
    SelectSeq(packages,
              LAMBDA package : \/ package.build_behaviour = "Force"
                               \/ has_rock(LockfileOf(args.lockfile), package.package) = None)

\* do_get_all_dependencies up to join_all: the tasks it spawns
Spawned(p, call, args, packages) ==
    LET kept == NotInstalled(args, packages)
    IN [q \in {ChildTask(p, call, i) : i \in DOMAIN kept} |->
           SpawnTask(kept[q[Len(q)].index], args)]

\* join_all(..).await is over when every spawned task is
Joined(p, call, n) == \A i \in 1..n : tasks[ChildTask(p, call, i)].state = "done"

\* the Vec<Result<Result<LocalPackageId, _>, JoinError>> of join_all
JoinAll(p, call, n) == [i \in 1..n |-> tasks[ChildTask(p, call, i)].result]

\* Iterator::flatten over Result items: an Err(JoinError) yields nothing
flatten(results) == SelectSeq(results, LAMBDA r : r.tag # "JoinError")

\* Iterator::try_collect into Result<Vec<_>, _>
try_collect(results) ==
    IF \E i \in DOMAIN results : results[i].tag = "Err"
    THEN [tag |-> "Err", ids |-> <<>>]
    ELSE [tag |-> "Ok", ids |-> [i \in DOMAIN results |-> results[i].id]]

\* what do_get_all_dependencies returns once join_all is over
Returned(p, call, n) == try_collect(flatten(JoinAll(p, call, n)))

\* the build tree or the main tree a call resolves for
TreeOf(p, call) ==
    IF call = "build_dependencies"
       \/ \E i \in DOMAIN p : p[i].call = "build_dependencies"
    THEN "build" ELSE "main"

\* history of the lockfile reads of a call
Checked(p, call, args, packages) ==
    IF \A i \in DOMAIN packages : packages[i].build_behaviour = "Force" THEN {}
    ELSE {[tree |-> TreeOf(p, call), lockfile |-> args.lockfile]}

\* the variables of the install run while no run is modelled
InstallIdle ==
    /\ manifest = <<>>
    /\ requested = <<>>
    /\ buildLock = EmptyLock
    /\ tasks = <<>>
    /\ channels = <<>>
    /\ pc = "idle"
    /\ failures = 0
    /\ checks = {}
    /\ emitted = {}
    /\ all_packages = <<>>
    /\ builds = <<>>
    /\ installed_packages = <<>>
    /\ written = {}

\* a write session on a lockfile: opened by write_guard or by
\* map_then_flush; held, dropped or returned; the io::Result of its flush
\* and the result its caller is handed
Session(via, guard, io, seen) == [via |-> via, guard |-> guard, io |-> io, seen |-> seen]

\* the write session while none is modelled
SessionIdle ==
    /\ disk = EmptyLock
    /\ session = Session("none", "none", "none", "none")

\* no read operation has been called
NoQuery == [op |-> "none"]

\* get_manifest has not been called
NoFetch == [pc |-> "none"]

\* Lockfile::flush: the body is serialized and written to filepath; when
\* the write fails the file keeps what it held
flush(l, on_disk, io) == IF io = "Ok" THEN l ELSE on_disk

-----------------------------------------------------------------------------
(* SpecLock: a write session on an empty lockfile *)

\* the packages handed to the write operations
LockPkgs ==
    {LocalPackageFrom("a", "1.0-1", Unconstrained),
     LocalPackageFrom("b", "1.0-1", Constrained(">=1.0"))}

NoPkg == LocalPackageFrom("", "", Unconstrained)

\* the operation, its arguments and the lock it was applied to
Op(op, target, dependency, before) ==
    [op |-> op, target |-> target, dependency |-> dependency, before |-> before]

InitLock ==
    /\ lock = EmptyLock
    /\ lastOp = Op("new", NoPkg, NoPkg, EmptyLock)
    /\ syncPc = "init"
    /\ syncReqs = <<>>
    /\ syncOut = NoSyncSpec
    /\ disk = EmptyLock
    /\ \E via \in {"write_guard", "map_then_flush"} : session = Session(via, "held", "none", "none")
    /\ query = NoQuery
    /\ fetch = NoFetch
    /\ InstallIdle

Add(rock) ==
    /\ session.guard = "held"
    /\ lock' = add(lock, rock)
    /\ lastOp' = Op("add", rock, NoPkg, lock)
    /\ UNCHANGED <<syncVars, sessionVars, readVars, fetchVars, installVars>>

AddEntrypoint(rock) ==
    /\ session.guard = "held"
    /\ Len(lock.entrypoints) < MaxEntrypoints
    /\ lock' = add_entrypoint(lock, rock)
    /\ lastOp' = Op("add_entrypoint", rock, NoPkg, lock)
    /\ UNCHANGED <<syncVars, sessionVars, readVars, fetchVars, installVars>>

RemoveEntrypoint(rock) ==
    /\ session.guard = "held"
    /\ lock' = remove_entrypoint(lock, rock)
    /\ lastOp' = Op("remove_entrypoint", rock, NoPkg, lock)
    /\ UNCHANGED <<syncVars, sessionVars, readVars, fetchVars, installVars>>

AddDependency(target, dependency) ==
    /\ session.guard = "held"
    /\ PkgId(target) \in RockIds(lock)
          => Len(lock.rocks[PkgId(target)].dependencies) < MaxDeps
    /\ lock' = add_dependency(lock, target, dependency)
    /\ lastOp' = Op("add_dependency", target, dependency, lock)
    /\ UNCHANGED <<syncVars, sessionVars, readVars, fetchVars, installVars>>

Remove(target) ==
    /\ session.guard = "held"
    /\ lock' = remove(lock, target)
    /\ lastOp' = Op("remove", target, NoPkg, lock)
    /\ UNCHANGED <<syncVars, sessionVars, readVars, fetchVars, installVars>>

RemoveById(target) ==
    /\ session.guard = "held"
    /\ lock' = remove_by_id(lock, PkgId(target))
    /\ lastOp' = Op("remove_by_id", target, NoPkg, lock)
    /\ UNCHANGED <<syncVars, sessionVars, readVars, fetchVars, installVars>>

\* Drop for LockfileGuard: let _ = self.flush(); the caller is handed nothing
DropResult(io) == "none"

\* the guard of write_guard goes out of scope
DropGuard(io) ==
    /\ session.via = "write_guard"
    /\ session.guard = "held"
    /\ disk' = flush(lock, disk, io)
    /\ session' = Session(session.via, "dropped", io, DropResult(io))
    /\ UNCHANGED <<lockVars, syncVars, readVars, fetchVars, installVars>>

\* map_then_flush: cb has returned Ok; writeable_lockfile.flush()?; Ok(result)
MapThenFlush(io) ==
    /\ session.via = "map_then_flush"
    /\ session.guard = "held"
    /\ disk' = flush(lock, disk, io)
    /\ session' = Session(session.via, "returned", io, io)
    /\ UNCHANGED <<lockVars, syncVars, readVars, fetchVars, installVars>>

\* map_then_flush: cb(&mut writeable_lockfile)? is an error; nothing is flushed
MapThenFlushFails ==
    /\ session.via = "map_then_flush"
    /\ session.guard = "held"
    /\ session' = Session(session.via, "returned", "none", "Err")
    /\ UNCHANGED <<lockVars, syncVars, disk, readVars, fetchVars, installVars>>

NextLock ==
    \/ \E rock \in LockPkgs : Add(rock)
    \/ \E rock \in LockPkgs : AddEntrypoint(rock)
    \/ \E rock \in LockPkgs : RemoveEntrypoint(rock)
    \/ \E target \in LockPkgs, dependency \in LockPkgs : AddDependency(target, dependency)
    \/ \E target \in LockPkgs : Remove(target)
    \/ \E target \in LockPkgs : RemoveById(target)
    \/ \E io \in {"Ok", "Err"} : DropGuard(io)
    \/ \E io \in {"Ok", "Err"} : MapThenFlush(io)
    \/ MapThenFlushFails

-----------------------------------------------------------------------------
(* SpecSync: package_sync_spec on every lockfile body over SyncPkgs and    *)
(* every list of at most MaxReqs distinct declared requirements            *)

SyncPkgs ==
    {LocalPackageFrom("a", "1.0-1", Unconstrained),
     LocalPackageFrom("a", "1.0-1", Constrained(">=1.0")),
     LocalPackageFrom("b", "1.0-1", Constrained(">=1.0"))}

\* LuaDependencySpec: the name and the version requirement
SyncReqUniverse == [name : {"a", "b"}, version_req : {ReqAny, ">=1.0"}]

\* the body with the rocks ps, dependencies deps[p] and entrypoints es
SyncBody(ps, deps, es) ==
    [rocks |-> [id \in {PkgId(p) : p \in ps} |->
                  LET p == CHOOSE q \in ps : PkgId(q) = id
                  IN [p EXCEPT !.dependencies = SetToSeq(deps[p])]],
     entrypoints |-> SetToSeq(es)]

\* every body whose entrypoints are rocks; a dependencies list may name
\* itself, a cycle or an id that is no rock
SyncBodies(pkgs) ==
    UNION {UNION {{SyncBody(ps, deps, es) : es \in SUBSET {PkgId(p) : p \in ps}} :
                     deps \in [ps -> SUBSET {PkgId(p) : p \in pkgs}]} :
              ps \in SUBSET pkgs}

InitSync ==
    /\ lock \in SyncBodies(SyncPkgs)
    /\ lastOp = Op("load", NoPkg, NoPkg, EmptyLock)
    /\ syncPc = "init"
    /\ syncReqs = <<>>
    /\ syncOut = NoSyncSpec
    /\ SessionIdle
    /\ query = NoQuery
    /\ fetch = NoFetch
    /\ InstallIdle

PackageSyncSpec(packages) ==
    /\ syncPc = "init"
    /\ syncOut' = package_sync_spec(lock, packages)
    /\ syncPc' = syncOut'.outcome
    /\ syncReqs' = packages
    /\ UNCHANGED <<lockVars, sessionVars, readVars, fetchVars, installVars>>

\* the lists of declared requirements: no requirement is listed twice
SyncReqLists ==
    {packages \in SeqsUpTo(SyncReqUniverse, MaxReqs) :
        \A i, j \in DOMAIN packages : packages[i] = packages[j] => i = j}

NextSync == \E packages \in SyncReqLists : PackageSyncSpec(packages)

-----------------------------------------------------------------------------
(* SpecInstall: one install run over every package db of at most MaxEdges  *)
(* dependency edges between three packages, cyclic ones included           *)

Names == {"a", "b", "c"}

\* what a rockspec of the package db may require: a requires b and b
\* requires c, as a dependency or as a build dependency, and b may depend
\* on a, which closes a cycle
Edges ==
    [of : {"a"}, on : {"b"}, kind : {"dependencies", "build_dependencies"}]
    \cup [of : {"b"}, on : {"c"}, kind : {"dependencies", "build_dependencies"}]
    \cup [of : {"b"}, on : {"a"}, kind : {"dependencies"}]

\* the RemoteLuaRockspec of a package: its requirements in a fixed order
Rockspec(E, name) ==
    LET reqs(kind) ==
            LET on == SetToSeq({e.on : e \in {d \in E : d.of = name /\ d.kind = kind}})
            IN [i \in DOMAIN on |-> PackageReq(on[i], ReqAny)]
    IN [package |-> name, version |-> Version,
        dependencies |-> reqs("dependencies"),
        build_dependencies |-> reqs("build_dependencies")]

Manifests ==
    {[name \in Names |-> Rockspec(E, name)] :
        E \in {D \in SUBSET Edges : Cardinality(D) <= MaxEdges}}

\* the packages asked for: a, or a and b, each forced or not
RequestedLists ==
    UNION {{[i \in DOMAIN names |->
                PackageInstallSpecNew(PackageReq(names[i], ReqAny), "Entrypoint",
                                      behaviour[i], FALSE, FALSE)] :
               behaviour \in [DOMAIN names -> {"NoForce", "Force"}]} :
              names \in {<<"a">>, <<"a", "b">>}}

\* the lockfiles at the start: nothing is installed, or c is
InstalledRock == LocalPackageFrom("c", Version, Unconstrained)

\* the main and the build lockfile at the start: c is installed in neither,
\* in the main one as a dependency or as an entrypoint, or in the build one
Lockfiles ==
    {<<EmptyLock, EmptyLock>>,
     <<add(EmptyLock, InstalledRock), EmptyLock>>,
     <<add_entrypoint(EmptyLock, InstalledRock), EmptyLock>>,
     <<EmptyLock, add_entrypoint(EmptyLock, InstalledRock)>>}

InitInstall ==
    /\ manifest \in Manifests
    /\ requested \in RequestedLists
    /\ \E lockfiles \in Lockfiles : lock = lockfiles[1] /\ buildLock = lockfiles[2]
    /\ lastOp = Op("load", NoPkg, NoPkg, EmptyLock)
    /\ syncPc = "init"
    /\ syncReqs = <<>>
    /\ syncOut = NoSyncSpec
    /\ SessionIdle
    /\ query = NoQuery
    /\ fetch = NoFetch
    /\ tasks = <<>>
    /\ channels = [c \in {"dependencies", "build_dependencies"} |-> <<>>]
    /\ pc = "start"
    /\ failures = 0
    /\ checks = {}
    /\ emitted = {}
    /\ all_packages = <<>>
    /\ builds = <<>>
    /\ installed_packages = <<>>
    /\ written = {}

\* the call of get_all_dependencies by the install run
ResolveStart ==
    /\ pc = "start"
    /\ tasks' = Spawned(<<>>, "packages", TopResolve, requested)
    /\ checks' = checks \cup Checked(<<>>, "packages", TopResolve, requested)
    /\ pc' = "resolve"
    /\ UNCHANGED <<lockVars, syncVars, sessionVars, readVars, fetchVars, pipelineVars, manifest, requested, buildLock, channels,
                   failures, emitted>>

\* a task ends with the result r without a send
TaskEnds(p, r) ==
    /\ tasks' = [tasks EXCEPT ![p].state = "done", ![p].result = r]
    /\ UNCHANGED <<lockVars, syncVars, sessionVars, readVars, fetchVars, pipelineVars, manifest, requested, buildLock, channels,
                   pc, checks, emitted>>

\* download_remote_rock fails: the task returns the error
DownloadFails(p) ==
    /\ pc = "resolve"
    /\ tasks[p].state = "spawned"
    /\ failures < MaxFailures
    /\ failures' = failures + 1
    /\ TaskEnds(p, Err)

\* the task panics: its JoinHandle yields a JoinError
TaskPanics(p) ==
    /\ pc = "resolve"
    /\ tasks[p].state = "spawned"
    /\ failures < MaxFailures
    /\ failures' = failures + 1
    /\ TaskEnds(p, JoinError)

\* the build dependencies of the downloaded rockspec, as the task asks for them
BuildDependencies(t) ==
    LET rockspec == manifest[t.spec.package.name]
    IN [i \in DOMAIN rockspec.build_dependencies |->
           PackageInstallSpecNew(rockspec.build_dependencies[i], "Entrypoint",
                                 t.spec.build_behaviour, t.spec.pin, t.spec.opt)]

\* mutant of Dependencies: under Force every installed dependency keeps the
\* entry type Entrypoint, an entrypoint or not
DependenciesInstalledAreEntrypoints(t) ==
    LET rockspec == manifest[t.spec.package.name]
        lockfile == LockfileOf(t.args.lockfile)
        entry_type(req) ==
            IF t.spec.build_behaviour = "Force" /\ has_rock(lockfile, req) # None
            THEN "Entrypoint" ELSE "DependencyOnly"
    IN [i \in DOMAIN rockspec.dependencies |->
           PackageInstallSpecNew(rockspec.dependencies[i],
                                 entry_type(rockspec.dependencies[i]),
                                 t.spec.build_behaviour, t.spec.pin, t.spec.opt)]

\* the regular dependencies of the rockspec, as the task asks for them
Dependencies(t) ==
    LET rockspec == manifest[t.spec.package.name]
        lockfile == LockfileOf(t.args.lockfile)
        installed(req) == has_rock(lockfile, req)
        entry_type(req) ==
            IF /\ t.spec.build_behaviour = "Force"
               /\ installed(req) # None
               /\ is_entrypoint(lockfile, PkgId(installed(req)[1]))
            THEN "Entrypoint" ELSE "DependencyOnly"
    IN [i \in DOMAIN rockspec.dependencies |->
           PackageInstallSpecNew(rockspec.dependencies[i],
                                 entry_type(rockspec.dependencies[i]),
                                 t.spec.build_behaviour, t.spec.pin, t.spec.opt)]

\* history of the lockfile reads that choose the entry type of a dependency
EntryTypeChecked(p, t) ==
    IF t.spec.build_behaviour = "Force" /\ Dependencies(t) # <<>>
    THEN {[tree |-> TreeOf(p, "dependencies"), lockfile |-> t.args.lockfile]}
    ELSE {}

\* the PackageInstallData a task sends once its dependencies are resolved
InstallData(t, dependencies) ==
    LET rockspec == manifest[t.spec.package.name]
        constraint == IF t.spec.constraint = None
                      THEN LockConstraintFrom(t.spec.package.version_req)
                      ELSE t.spec.constraint[1]
    IN [build_behaviour |-> t.spec.build_behaviour, pin |-> t.spec.pin,
        opt |-> t.spec.opt,
        spec |-> LocalPackageSpecNew(rockspec.package, rockspec.version, constraint,
                                     dependencies, t.spec.pin, t.spec.opt),
        downloaded_rock |-> [package |-> rockspec.package, version |-> rockspec.version],
        entry_type |-> t.spec.entry_type]

\* the part of the state a task acts on
Here == [tasks |-> tasks, channels |-> channels, checks |-> checks, emitted |-> emitted]

\* dependencies_tx.send(install_spec).unwrap(); Ok(local_spec.id())
Sent(st, p, dependencies) ==
    LET t == st.tasks[p]
        install_spec == InstallData(t, dependencies)
    IN [st EXCEPT !.channels[t.args.dependencies_tx] = Append(@, install_spec),
                  !.emitted = @ \cup {[task |-> p, channel |-> t.args.dependencies_tx,
                                        install_spec |-> install_spec]},
                  !.tasks[p].state = "done",
                  !.tasks[p].result = Ok(PkgId(install_spec.spec))]

\* the task asks for its regular dependencies; a join_all of no task is
\* over at once, and the task goes on to send
Depended(st, p) ==
    LET t == st.tasks[p]
        args == DependenciesResolve(t.args)
        children == Spawned(p, "dependencies", args, Dependencies(t))
        next == [st EXCEPT
                   !.tasks = [@ EXCEPT ![p].state = "dependencies",
                                       ![p].dependencies = Cardinality(DOMAIN children)]
                             @@ children,
                   !.checks = @ \cup EntryTypeChecked(p, t)
                                \cup Checked(p, "dependencies", args, Dependencies(t))]
    IN IF DOMAIN children = {} THEN Sent(next, p, <<>>) ELSE next

\* the task asks for its build dependencies; a join_all of no task is over
\* at once, and the task goes on to its regular dependencies
Downloaded(st, p) ==
    LET t == st.tasks[p]
        args == BuildResolve(t.args)
        children == Spawned(p, "build_dependencies", args, BuildDependencies(t))
        next == [st EXCEPT
                   !.tasks = [@ EXCEPT ![p].state = "build_dependencies",
                                       ![p].build_dependencies = Cardinality(DOMAIN children)]
                             @@ children,
                   !.checks = @ \cup
                        Checked(p, "build_dependencies", args, BuildDependencies(t))]
    IN IF DOMAIN children = {} THEN Depended(next, p) ELSE next

\* what a task does is fixed by the package, the propagated options and the
\* Resolve it was spawned with: the lockfiles do not change during the pass
TaskConfig(t) ==
    [package |-> t.spec.package, build_behaviour |-> t.spec.build_behaviour,
     pin |-> t.spec.pin, opt |-> t.spec.opt, args |-> t.args]

\* the task p was spawned, down its chain of calls, by a task like itself
Recurs(p) == \E q \in DOMAIN tasks : IsAncestor(q, p) /\ TaskConfig(tasks[q]) = TaskConfig(tasks[p])

\* the task moves on to st. A task that recurs would spawn what the task it
\* repeats has spawned, and so on without end: its calls are not followed.
TaskMoves(p, st) ==
    /\ DOMAIN st.tasks # DOMAIN tasks => ~Recurs(p)
    /\ tasks' = st.tasks
    /\ channels' = st.channels
    /\ checks' = st.checks
    /\ emitted' = st.emitted
    /\ UNCHANGED <<lockVars, syncVars, sessionVars, readVars, fetchVars, pipelineVars, manifest, requested, buildLock, pc, failures>>

\* the download succeeds and the task resolves its build dependencies
Download(p) ==
    /\ pc = "resolve"
    /\ tasks[p].state = "spawned"
    /\ TaskMoves(p, Downloaded(Here, p))

\* the resolution of the build dependencies returned an error: `.await?`
BuildDependenciesFail(p) ==
    /\ pc = "resolve"
    /\ tasks[p].state = "build_dependencies"
    /\ Joined(p, "build_dependencies", tasks[p].build_dependencies)
    /\ Returned(p, "build_dependencies", tasks[p].build_dependencies).tag = "Err"
    /\ UNCHANGED failures
    /\ TaskEnds(p, Err)

\* the build dependencies are resolved; the task resolves its dependencies
ResolveDependencies(p) ==
    /\ pc = "resolve"
    /\ tasks[p].state = "build_dependencies"
    /\ Joined(p, "build_dependencies", tasks[p].build_dependencies)
    /\ Returned(p, "build_dependencies", tasks[p].build_dependencies).tag = "Ok"
    /\ TaskMoves(p, Depended(Here, p))

\* the resolution of the dependencies returned an error: `.await?`
DependenciesFail(p) ==
    /\ pc = "resolve"
    /\ tasks[p].state = "dependencies"
    /\ Joined(p, "dependencies", tasks[p].dependencies)
    /\ Returned(p, "dependencies", tasks[p].dependencies).tag = "Err"
    /\ UNCHANGED failures
    /\ TaskEnds(p, Err)

\* the dependencies are resolved: the task sends its install spec and
\* returns the id
Send(p) ==
    /\ pc = "resolve"
    /\ tasks[p].state = "dependencies"
    /\ Joined(p, "dependencies", tasks[p].dependencies)
    /\ Returned(p, "dependencies", tasks[p].dependencies).tag = "Ok"
    /\ TaskMoves(p, Sent(Here, p, Returned(p, "dependencies", tasks[p].dependencies).ids))

\* the tasks the install run's own call spawned
TopTasks == {p \in DOMAIN tasks : Len(p) = 1}

\* get_all_dependencies returns to the install run
ResolveReturns ==
    /\ pc = "resolve"
    /\ Joined(<<>>, "packages", Cardinality(TopTasks))
    /\ pc' = IF Returned(<<>>, "packages", Cardinality(TopTasks)).tag = "Err"
             THEN "failed" ELSE "resolved"
    /\ UNCHANGED <<lockVars, syncVars, sessionVars, readVars, fetchVars, resolveVars, pipelineVars>>

\* HashMap::insert of every received install spec under its id: of two
\* install specs with one id the later one stays
Received(messages) ==
    LET ids == {PkgId(messages[i].spec) : i \in DOMAIN messages}
        last(id) == CHOOSE i \in DOMAIN messages :
                       /\ PkgId(messages[i].spec) = id
                       /\ \A j \in DOMAIN messages : PkgId(messages[j].spec) = id => j <= i
    IN [id \in ids |-> messages[last(id)]]

\* while let Some(dep) = rx.recv().await: the run takes every install spec
\* off the channel and spawns one build task for each id
Receive ==
    /\ pc = "resolved"
    /\ all_packages' = Received(channels["dependencies"])
    /\ channels' = [channels EXCEPT !["dependencies"] = <<>>]
    /\ builds' = [id \in DOMAIN all_packages' |-> NotYet]
    /\ pc' = "build"
    /\ UNCHANGED <<lockVars, syncVars, sessionVars, readVars, fetchVars, manifest, requested, buildLock, tasks, failures,
                   checks, emitted, installed_packages, written>>

\* the LocalPackage a build returns for an install spec
Built(install_spec) ==
    LocalPackageSpecNew(install_spec.spec.name, install_spec.spec.version,
                        PkgConstraint(install_spec.spec), <<>>,
                        install_spec.pin, install_spec.opt)

\* what the build task of id returns to its JoinHandle: Ok((pkg.id(), pkg)),
\* a BuildError, or the JoinError of a task that panicked
BuildResult(id, tag) ==
    IF tag = "Ok" THEN Ok(id) ELSE IF tag = "Err" THEN Err ELSE JoinError

\* the results of the build tasks, in the order of the ids
BuildResults(results) ==
    LET ids == SetToSeq(DOMAIN results) IN [i \in DOMAIN ids |-> results[ids[i]]]

\* the build tasks that failed
Failed(results) == {id \in DOMAIN results : results[id].tag # "Ok"}

\* the build tasks write to nothing the run reads before they are joined:
\* they run to their ends in one step. join_all(..).await.into_iter()
\* .flatten().try_collect()? is an error
BuildsFail(results) ==
    /\ pc = "build"
    /\ try_collect(flatten(BuildResults(results))).tag = "Err"
    /\ builds' = results
    /\ failures' = failures + Cardinality(Failed(results))
    /\ pc' = "failed"
    /\ UNCHANGED <<lockVars, syncVars, sessionVars, readVars, fetchVars, manifest, requested, buildLock, tasks, channels,
                   checks, emitted, all_packages, installed_packages, written>>

\* the build tasks run to their ends and join_all(..).await.into_iter()
\* .flatten().try_collect()? is the map of the installed packages
BuildsReturn(results) ==
    /\ pc = "build"
    /\ try_collect(flatten(BuildResults(results))).tag = "Ok"
    /\ builds' = results
    /\ installed_packages' =
          [id \in Range(try_collect(flatten(BuildResults(results))).ids) |->
              Built(all_packages[id])]
    /\ failures' = failures + Cardinality(Failed(results))
    /\ pc' = "lockfile"
    /\ UNCHANGED <<lockVars, syncVars, sessionVars, readVars, fetchVars, manifest, requested, buildLock, tasks, channels,
                   checks, emitted, all_packages, written>>

\* every way the build tasks of the received install specs can end
BuildOutcomes ==
    {results \in {[id \in DOMAIN all_packages |-> BuildResult(id, tag[id])] :
                     tag \in [DOMAIN all_packages -> {"Ok", "Err", "JoinError"}]} :
        failures + Cardinality(Failed(results)) <= MaxFailures}

\* lockfile.add(pkg), then add_dependency for the first n dependencies
RECURSIVE Written(_, _, _, _)
Written(l, pkg, dependencies, n) ==
    IF n = 0 THEN add(l, pkg)
    ELSE add_dependency(Written(l, pkg, dependencies, n - 1), pkg,
                        installed_packages[dependencies[n]])

\* the dependencies of the install spec of id that no build returned
NotFound(id) ==
    {i \in DOMAIN all_packages[id].spec.dependencies :
        all_packages[id].spec.dependencies[i] \notin DOMAIN installed_packages}

\* one turn of installed_packages.iter().for_each: the package and its
\* dependencies are written to the lockfile
WriteLockfile(id) ==
    /\ pc = "lockfile"
    /\ id \in DOMAIN installed_packages \ written
    /\ NotFound(id) = {}
    /\ lock' = Written(lock, installed_packages[id], all_packages[id].spec.dependencies,
                       Len(all_packages[id].spec.dependencies))
    /\ lastOp' = Op("install", installed_packages[id], NoPkg, lock)
    /\ written' = written \cup {id}
    /\ UNCHANGED <<syncVars, sessionVars, readVars, fetchVars, resolveVars, all_packages, builds, installed_packages, pc>>

\* one turn of installed_packages.iter().for_each meets a dependency that
\* no build returned: expect("required dependency not found") panics
WriteLockfilePanics(id) ==
    /\ pc = "lockfile"
    /\ id \in DOMAIN installed_packages \ written
    /\ NotFound(id) # {}
    /\ LET first == CHOOSE i \in NotFound(id) : \A j \in NotFound(id) : i <= j
       IN lock' = Written(lock, installed_packages[id],
                          all_packages[id].spec.dependencies, first - 1)
    /\ lastOp' = Op("install", installed_packages[id], NoPkg, lock)
    /\ pc' = "panicked"
    /\ UNCHANGED <<syncVars, sessionVars, readVars, fetchVars, resolveVars, all_packages, builds, installed_packages, written>>

\* Ok(installed_packages.into_values().collect_vec())
InstallReturns ==
    /\ pc = "lockfile"
    /\ written = DOMAIN installed_packages
    /\ pc' = "returned"
    /\ UNCHANGED <<lockVars, syncVars, sessionVars, readVars, fetchVars, resolveVars, pipelineVars>>

NextInstall ==
    \/ ResolveStart
    \/ \E p \in DOMAIN tasks : DownloadFails(p)
    \/ \E p \in DOMAIN tasks : TaskPanics(p)
    \/ \E p \in DOMAIN tasks : Download(p)
    \/ \E p \in DOMAIN tasks : BuildDependenciesFail(p)
    \/ \E p \in DOMAIN tasks : ResolveDependencies(p)
    \/ \E p \in DOMAIN tasks : DependenciesFail(p)
    \/ \E p \in DOMAIN tasks : Send(p)
    \/ ResolveReturns
    \/ Receive
    \/ \E results \in BuildOutcomes : BuildsFail(results)
    \/ \E results \in BuildOutcomes : BuildsReturn(results)
    \/ \E id \in DOMAIN installed_packages : WriteLockfile(id)
    \/ \E id \in DOMAIN installed_packages : WriteLockfilePanics(id)
    \/ InstallReturns

-----------------------------------------------------------------------------
(* SpecRead: the read operations on a lockfile that rocks are added to *)

MaxRocks == 2

\* LocalPackage::from with the hashes of the rockspec and of the source
Hashed(package, rockspec, source) ==
    package @@ [hashes |-> [rockspec |-> rockspec, source |-> source]]

\* Integrity::matches(..).is_some(): the integrity holds one hash
integrity_matches(got, expected) == got = expected

integrity_err_not_found(package) ==
    [tag |-> "PackageNotFound", name |-> package.name, version |-> package.version]

RockspecIntegrityMismatch(expected, got) ==
    [tag |-> "RockspecIntegrityMismatch", expected |-> expected, got |-> got]

SourceIntegrityMismatch(expected, got) ==
    [tag |-> "SourceIntegrityMismatch", expected |-> expected, got |-> got]

\* mutant of validate_integrity: the source integrity is not compared
validate_integrity_rockspec_only(l, package) ==
    LET found == SelectSeq(list(l, package.name),
                           LAMBDA rock : rock.version = package.version)
    IN IF found = <<>> THEN integrity_err_not_found(package)
       ELSE LET expected_package == found[1]
            IN IF ~integrity_matches(package.hashes.rockspec,
                                     expected_package.hashes.rockspec)
               THEN RockspecIntegrityMismatch(expected_package.hashes.rockspec,
                                              package.hashes.rockspec)
               ELSE [tag |-> "Ok"]

\* Lockfile::validate_integrity: the first rock of the name with the version
validate_integrity(l, package) ==
    LET found == SelectSeq(list(l, package.name),
                           LAMBDA rock : rock.version = package.version)
    IN IF found = <<>> THEN integrity_err_not_found(package)
       ELSE LET expected_package == found[1]
            IN IF ~integrity_matches(package.hashes.rockspec,
                                     expected_package.hashes.rockspec)
               THEN RockspecIntegrityMismatch(expected_package.hashes.rockspec,
                                              package.hashes.rockspec)
               ELSE IF ~integrity_matches(package.hashes.source,
                                          expected_package.hashes.source)
               THEN SourceIntegrityMismatch(expected_package.hashes.source,
                                            package.hashes.source)
               ELSE [tag |-> "Ok"]

\* Iterator::rev
Reverse(s) == [i \in 1..Len(s) |-> s[Len(s) + 1 - i]]

\* mutant of find_rocks: only the first match of the reversed list is kept
find_rocks_first(l, req) ==
    LET found == SelectSeq(Reverse(list(l, req.name)),
                           LAMBDA package : matches(req.version_req, package.version))
    IN IF found = <<>> THEN <<>> ELSE <<PkgId(found[1])>>

\* Lockfile::find_rocks: the ids of the matching rocks of the name, reversed
find_rocks(l, req) ==
    LET found == SelectSeq(Reverse(list(l, req.name)),
                           LAMBDA package : matches(req.version_req, package.version))
    IN [i \in DOMAIN found |-> PkgId(found[i])]

\* Tree::match_rocks
match_rocks(l, req) ==
    LET found_packages == find_rocks(l, req)
    IN IF Len(found_packages) = 0 THEN [tag |-> "NotFound", req |-> req]
       ELSE IF Len(found_packages) = 1
       THEN [tag |-> "Single", id |-> found_packages[Len(found_packages)]]
       ELSE [tag |-> "Many", ids |-> found_packages]

\* the packages added to the lockfile and handed to validate_integrity
ReadPkgs ==
    {Hashed(LocalPackageFrom("lua", "1.0-1", Unconstrained), "r1", "s1"),
     Hashed(LocalPackageFrom("lua", "1.0-1", Unconstrained), "r2", "s1"),
     Hashed(LocalPackageFrom("lua", "1.0-1", Unconstrained), "r1", "s2"),
     Hashed(LocalPackageFrom("lua", "1.0-1", Constrained(">=1.0")), "r2", "s2"),
     Hashed(LocalPackageFrom("lua", "1.0-2", Unconstrained), "r1", "s1"),
     Hashed(LocalPackageFrom("lua", "2.0-1", Unconstrained), "r1", "s1"),
     Hashed(LocalPackageFrom("lua", "51.0-1", Unconstrained), "r1", "s1"),
     Hashed(LocalPackageFrom("lua5", "1.0-1", Unconstrained), "r1", "s1")}

\* the requirements handed to match_rocks
ReadReqs ==
    {PackageReq("lua", ReqAny), PackageReq("lua", ">=1.0"), PackageReq("lua5", ReqAny)}

\* a read operation, its argument, the lock it read, the lock it left and
\* what it returned
Query(op, arg, before, after, result) ==
    [op |-> op, arg |-> arg, lock |-> before, after |-> after, result |-> result]

InitRead ==
    /\ lock = EmptyLock
    /\ lastOp = Op("new", NoPkg, NoPkg, EmptyLock)
    /\ syncPc = "init"
    /\ syncReqs = <<>>
    /\ syncOut = NoSyncSpec
    /\ disk = EmptyLock
    /\ session = Session("write_guard", "held", "none", "none")
    /\ query = NoQuery
    /\ fetch = NoFetch
    /\ InstallIdle

AddRock(rock) ==
    /\ Cardinality(RockIds(lock)) < MaxRocks
    /\ Add(rock)

ValidateIntegrity(package) ==
    /\ UNCHANGED <<lockVars, syncVars, sessionVars, fetchVars, installVars>>
    /\ query' = Query("validate_integrity", package, lock, lock',
                      validate_integrity(lock, package))

MatchRocks(req) ==
    /\ UNCHANGED <<lockVars, syncVars, sessionVars, fetchVars, installVars>>
    /\ query' = Query("match_rocks", req, lock, lock', match_rocks(lock, req))

NextRead ==
    \/ \E rock \in ReadPkgs : AddRock(rock)
    \/ \E package \in ReadPkgs : ValidateIntegrity(package)
    \/ \E req \in ReadReqs : MatchRocks(req)

-----------------------------------------------------------------------------
(* SpecManifest: get_manifest against a server and a cache file *)

\* a Url that ends in `zips` suffixes ".zip" after `stem`
Url(stem, zips) == [stem |-> stem, zips |-> zips]

\* mk_manifest_url: <server>/manifest-<version>.zip
mk_manifest_url(manifest_version) == Url("manifest-" \o manifest_version, 1)

\* fallback_unzipped_url: trim_end_matches(".zip")
fallback_unzipped_url(url) == Url(url.stem, 0)

\* mutant of is_client_error: a server error counts as well
is_client_or_server_error(status) == status >= 400 /\ status < 600

\* StatusCode::is_client_error
is_client_error(status) == status >= 400 /\ status < 500

\* Response::error_for_status is an Err
error_for_status(status) == status >= 400 /\ status < 600

\* what the server does with a request: no response, or a status and a body
NetworkError == [kind |-> "network"]
Response(status, body) == [kind |-> "response", status |-> status, body |-> body]

\* the servers of the model: the answer to the .zip URL is an archive that
\* holds the manifest, bytes that are no archive, a 404, a 403, a 500 or
\* nothing; the answer to the unzipped URL is the manifest, bytes that are
\* not UTF-8, a 404, a 500 or nothing
Servers ==
    [zipped : {Response(200, "zip of manifest A"), Response(200, "no zip"),
               Response(404, ""), Response(403, ""), Response(500, ""), NetworkError},
     unzipped : {Response(200, "manifest B"), Response(200, "not utf8"),
                 Response(404, ""), Response(500, ""), NetworkError}]

\* ZipArchive::new and extract_unwrapped_root_dir, then File::open
Unzipped(body) == IF body = "zip of manifest A" THEN Some("manifest A") ELSE None

\* String::from_utf8
from_utf8(body) == IF body = "not utf8" THEN None ELSE Some(body)

\* the write of the cache file: done, failed before the file was touched, or
\* failed after the file was truncated
Writes == {"Ok", "open fails", "write fails"}

write(target, content, io) ==
    IF io = "Ok" THEN Some(content)
    ELSE IF io = "open fails" THEN target
    ELSE Some("")

FetchOk(content) == [tag |-> "Ok", manifest |-> content]
FetchErr(error) == [tag |-> "Err", error |-> error]

\* a call of get_manifest: where it is, the server, what the write of the
\* cache file will do, the requests sent so far, the cache file, the result
Fetch(pc_, server, io, requests, target, result) ==
    [pc |-> pc_, server |-> server, io |-> io, requests |-> requests,
     target |-> target, result |-> result]

InitManifest ==
    /\ lock = EmptyLock
    /\ lastOp = Op("new", NoPkg, NoPkg, EmptyLock)
    /\ syncPc = "init"
    /\ syncReqs = <<>>
    /\ syncOut = NoSyncSpec
    /\ SessionIdle
    /\ query = NoQuery
    /\ \E server \in Servers, io \in Writes, target \in {None, Some("manifest 0")} :
          fetch = Fetch("start", server, io, <<>>, target, None)
    /\ InstallIdle

\* client.get(url.clone()).send()
GetZipped ==
    /\ fetch.pc = "start"
    /\ fetch' = [fetch EXCEPT !.pc = "zipped",
                              !.requests = Append(@, mk_manifest_url("5.1"))]
    /\ UNCHANGED <<lockVars, syncVars, sessionVars, readVars, installVars>>

\* the lines of get_manifest after the first response: what is requested
\* next, if anything, or the cache file and the result
AfterZipped(f) ==
    LET response == f.server.zipped
    IN IF response.kind = "network"
       THEN [f EXCEPT !.pc = "returned", !.result = FetchErr("Request")]
       ELSE IF is_client_error(response.status)
       THEN [f EXCEPT !.pc = "unzipped",
                      !.requests = Append(@, fallback_unzipped_url(f.requests[1]))]
       ELSE IF error_for_status(response.status)
       THEN [f EXCEPT !.pc = "returned", !.result = FetchErr("Request")]
       ELSE IF Unzipped(response.body) = None
       THEN [f EXCEPT !.pc = "returned", !.result = FetchErr("ZipRead")]
       ELSE IF f.io = "Ok"
       THEN [f EXCEPT !.pc = "returned",
                      !.target = write(@, Unzipped(response.body)[1], f.io),
                      !.result = FetchOk(Unzipped(response.body)[1])]
       ELSE [f EXCEPT !.pc = "returned",
                      !.target = write(@, Unzipped(response.body)[1], f.io),
                      !.result = FetchErr("Io")]

\* the lines of the fallback after the response to the unzipped URL
AfterUnzipped(f) ==
    LET response == f.server.unzipped
    IN IF response.kind = "network" \/ error_for_status(response.status)
       THEN [f EXCEPT !.pc = "returned", !.result = FetchErr("Request")]
       ELSE IF from_utf8(response.body) = None
       THEN [f EXCEPT !.pc = "returned", !.result = FetchErr("FromUtf8")]
       ELSE IF f.io = "Ok"
       THEN [f EXCEPT !.pc = "returned",
                      !.target = write(@, from_utf8(response.body)[1], f.io),
                      !.result = FetchOk(from_utf8(response.body)[1])]
       ELSE [f EXCEPT !.pc = "returned",
                      !.target = write(@, from_utf8(response.body)[1], f.io),
                      !.result = FetchErr("Io")]

ZippedResponds ==
    /\ fetch.pc = "zipped"
    /\ fetch' = AfterZipped(fetch)
    /\ UNCHANGED <<lockVars, syncVars, sessionVars, readVars, installVars>>

UnzippedResponds ==
    /\ fetch.pc = "unzipped"
    /\ fetch' = AfterUnzipped(fetch)
    /\ UNCHANGED <<lockVars, syncVars, sessionVars, readVars, installVars>>

NextManifest ==
    \/ GetZipped
    \/ ZippedResponds
    \/ UnzippedResponds

-----------------------------------------------------------------------------
(* SpecBuild: builds of a project into its tree, whose lockfile is lock.   *)
(* Between two builds the version of the project may change and the        *)
(* dependencies the tree lacks are installed as entrypoints.               *)

\* the package Build::new().rockspec(&project_toml)..build() returns
ProjectPkgs ==
    {LocalPackageFrom("p", "1.0-1", Unconstrained),
     LocalPackageFrom("p", "2.0-1", Unconstrained)}

\* the requirements project_toml.dependencies() declares, and the package
\* the install of each leaves in the tree
ProjectDependencies ==
    {[req |-> PackageReq(rock.name, ReqAny), rock |-> rock] : rock \in LockPkgs}

InitBuild ==
    /\ lock = EmptyLock
    /\ lastOp = Op("new", NoPkg, NoPkg, EmptyLock)
    /\ syncPc = "init"
    /\ syncReqs = <<>>
    /\ syncOut = NoSyncSpec
    /\ SessionIdle
    /\ query = NoQuery
    /\ fetch = NoFetch
    /\ InstallIdle

\* no_lock: a dependency that match_rocks does not find in the tree is
\* installed with tree::EntryType::Entrypoint
InstallDependency(dep) ==
    /\ match_rocks(lock, dep.req).tag = "NotFound"
    /\ lock' = add_entrypoint(lock, dep.rock)
    /\ lastOp' = Op("install_dependency", dep.rock, NoPkg, lock)
    /\ UNCHANGED <<syncVars, sessionVars, readVars, fetchVars, installVars>>

\* the rocks of the lockfile that are entrypoints, in the order of rocks()
BuildProjectDependencies(l) ==
    SelectSeq(RockValues(l), LAMBDA value : is_entrypoint(l, PkgId(value)))

\* lockfile.add_entrypoint(&package), then the first n turns of
\* for dep in dependencies { add_dependency(&package, &dep); remove_entrypoint(&dep) }
RECURSIVE BuildProjectLockfile(_, _, _, _)
BuildProjectLockfile(l, package, dependencies, n) ==
    IF n = 0 THEN add_entrypoint(l, package)
    ELSE remove_entrypoint(
             add_dependency(BuildProjectLockfile(l, package, dependencies, n - 1),
                            package, dependencies[n]),
             dependencies[n])

\* the dependencies list of package in l, empty when l does not hold it
DependenciesIn(l, package) ==
    IF get(l, PkgId(package)) = None THEN <<>> ELSE l.rocks[PkgId(package)].dependencies

\* BuildProject::build with only_deps = false, after the build of the
\* project has returned package
BuildProject(package) ==
    /\ Len(DependenciesIn(lock, package)) + Len(BuildProjectDependencies(lock)) <= MaxDeps
    /\ lock' = BuildProjectLockfile(lock, package, BuildProjectDependencies(lock),
                                    Len(BuildProjectDependencies(lock)))
    /\ lastOp' = Op("build_project", package, NoPkg, lock)
    /\ UNCHANGED <<syncVars, sessionVars, readVars, fetchVars, installVars>>

NextBuild ==
    \/ \E dep \in ProjectDependencies : InstallDependency(dep)
    \/ \E package \in ProjectPkgs : BuildProject(package)

-----------------------------------------------------------------------------
(* SpecNew: callers of Lockfile::new on one path that holds no file yet.   *)
(* disk is the file (None while it does not exist, else its text, a        *)
(* sequence of tokens) and session the position of every caller.           *)

\* most callers of Lockfile::new on the path
MaxCallers == 2

Callers == 1..MaxCallers

\* RockLayoutConfig::default() and the layout of a neovim tree
RockLayouts == {"default", "nvim"}

\* Err(LockfileError::..) of Lockfile::new and Lockfile::load
LockfileError(kind) == [tag |-> "Err", error |-> kind]

\* serde_json::to_string of the empty lockfile: entrypoint_layout is skipped
\* when it is the default
to_string(rock_layout) ==
    IF rock_layout = "default" THEN <<"{", "version", "}">>
    ELSE <<"{", "version", rock_layout, "}">>

\* serde_json::from_str: a text that is not a whole object does not parse;
\* entrypoint_layout is the default when the text does not hold it
from_str(content) ==
    IF Len(content) < 3 \/ content[1] # "{" \/ content[Len(content)] # "}"
    THEN LockfileError("ParseJson")
    ELSE [tag |-> "Ok", lock |-> EmptyLock,
          entrypoint_layout |-> IF Len(content) = 4 THEN content[3] ELSE "default"]

\* Lockfile::load(filepath, Some(&rock_layout))
load(file, expected_rock_layout) ==
    IF file = None THEN LockfileError("Load")
    ELSE IF from_str(file[1]).tag # "Ok" THEN from_str(file[1])
    ELSE IF from_str(file[1]).entrypoint_layout # expected_rock_layout
    THEN LockfileError("MismatchedRockLayout")
    ELSE from_str(file[1])

\* the caller has not returned
NotReturned == [tag |-> "none"]

Caller(pc_, rock_layout, result) ==
    [pc |-> pc_, rock_layout |-> rock_layout, result |-> result]

InitNew ==
    /\ lock = EmptyLock
    /\ lastOp = Op("new", NoPkg, NoPkg, EmptyLock)
    /\ syncPc = "init"
    /\ syncReqs = <<>>
    /\ syncOut = NoSyncSpec
    /\ disk = None
    /\ \E layouts \in [Callers -> RockLayouts] :
          session = [c \in Callers |-> Caller("start", layouts[c], NotReturned)]
    /\ query = NoQuery
    /\ fetch = NoFetch
    /\ InstallIdle

\* File::options().create_new(true).write(true).open(&filepath): the file
\* is created empty, or exists already and the error is dropped
CreateNew(c) ==
    /\ session[c].pc = "start"
    /\ disk' = IF disk = None THEN Some(<<>>) ELSE disk
    /\ session' = [session EXCEPT ![c].pc = IF disk = None THEN "created" ELSE "load"]
    /\ UNCHANGED <<lockVars, syncVars, readVars, fetchVars, installVars>>

\* open fails with another error than AlreadyExists
CreateNewFails(c) ==
    /\ session[c].pc = "start"
    /\ session' = [session EXCEPT ![c] = Caller("returned", @.rock_layout, LockfileError("Create"))]
    /\ UNCHANGED <<lockVars, syncVars, disk, readVars, fetchVars, installVars>>

\* write!(file, "{json_str}") writes the whole text
WriteSkeleton(c) ==
    /\ session[c].pc = "created"
    /\ disk' = Some(to_string(session[c].rock_layout))
    /\ session' = [session EXCEPT ![c].pc = "load"]
    /\ UNCHANGED <<lockVars, syncVars, readVars, fetchVars, installVars>>

\* write! fails after the first n tokens of the text
WriteSkeletonFails(c, n) ==
    /\ session[c].pc = "created"
    /\ n < Len(to_string(session[c].rock_layout))
    /\ disk' = Some(SubSeq(to_string(session[c].rock_layout), 1, n))
    /\ session' = [session EXCEPT ![c] = Caller("returned", @.rock_layout, LockfileError("Create"))]
    /\ UNCHANGED <<lockVars, syncVars, readVars, fetchVars, installVars>>

\* Self::load(filepath, Some(&rock_layout))
Load(c) ==
    /\ session[c].pc = "load"
    /\ session' = [session EXCEPT ![c] = Caller("returned", @.rock_layout,
                                                load(disk, @.rock_layout))]
    /\ UNCHANGED <<lockVars, syncVars, disk, readVars, fetchVars, installVars>>

NextNew ==
    \/ \E c \in Callers : CreateNew(c)
    \/ \E c \in Callers : CreateNewFails(c)
    \/ \E c \in Callers : WriteSkeleton(c)
    \/ \E c \in Callers, n \in 0..3 : WriteSkeletonFails(c, n)
    \/ \E c \in Callers : Load(c)

-----------------------------------------------------------------------------
(* SpecConfig: loads of the manifest by Manifest::from_config, one after   *)
(* another, against one server and one cache file. The record fetch holds  *)
(* the server, the cache file, the clock and the calls made.               *)

\* most calls of Manifest::from_config
MaxLoads == 2

\* latest time a clock of the model shows
MaxTime == 3

Times == 0..MaxTime

\* the cache file: fs::read_to_string and fs::metadata(..).modified()
CacheFile(content, modified) == [content |-> content, modified |-> modified]

\* the Last-Modified header: a date, or a value that is none
LastModified(date) == [valid |-> TRUE, date |-> date]
InvalidDate == [valid |-> FALSE]

\* the servers of the loads: the answers to HEAD on the two URLs, the
\* Last-Modified header of a successful HEAD, if any, and the answers to GET
ConfigServers ==
    [head_zipped : {Response(200, ""), Response(404, ""), Response(500, ""), NetworkError},
     head_unzipped : {Response(200, ""), Response(404, "")},
     last_modified : {None, Some(InvalidDate)} \cup {Some(LastModified(t)) : t \in Times},
     zipped : {Response(200, "zip of manifest A"), Response(404, ""), Response(500, "")},
     unzipped : {Response(200, "manifest B"), Response(200, "no lua"), Response(404, "")}]

\* ManifestMetadata::new(&content).is_ok(): the text is a Lua chunk that
\* sets repository
ManifestMetadataNew(content) == content \in {"manifest 0", "manifest A", "manifest B"}

\* get_manifest(url, manifest_version, &cache, &client) at time now: the GET
\* requests sent, the result and the cache file it leaves
get_manifest(server, io, cache, now) ==
    LET target == IF cache = None THEN None ELSE Some(cache[1].content)
        sent == Fetch("zipped", server, io, <<mk_manifest_url("5.1")>>, target, None)
        first == AfterZipped(sent)
        last == IF first.pc = "unzipped" THEN AfterUnzipped(first) ELSE first
        opened == \/ last.result.tag = "Ok"
                  \/ (last.result = FetchErr("Io") /\ io # "open fails")
    IN [requests |-> last.requests, result |-> last.result,
        cache |-> IF opened THEN Some(CacheFile(last.target[1], now)) ELSE cache]

\* client.head(url).send() and its fallback: the HEAD requests sent and
\* whether a response without an error status came back
head(server) ==
    LET url == mk_manifest_url("5.1")
    IN IF server.head_zipped.kind = "network"
       THEN [heads |-> <<url>>, ok |-> FALSE]
       ELSE IF is_client_error(server.head_zipped.status)
       THEN [heads |-> <<url, fallback_unzipped_url(url)>>,
             ok |-> /\ server.head_unzipped.kind # "network"
                    /\ ~error_for_status(server.head_unzipped.status)]
       ELSE [heads |-> <<url>>, ok |-> ~error_for_status(server.head_zipped.status)]

\* a call of manifest_from_cache_or_server or manifest_from_server_only: the
\* cache file it found, the HEAD and GET requests it sent and its result
Call(cache, heads, requests, result) ==
    [cache |-> cache, heads |-> heads, requests |-> requests, result |-> result]

NoCall == Call(None, <<>>, <<>>, None)

\* manifest_from_cache_or_server at time now: the call and the cache file
\* it leaves
manifest_from_cache_or_server(server, io, cache, now) ==
    LET pulled == get_manifest(server, io, cache, now)
        from_server(heads) ==
            [call |-> Call(cache, heads, pulled.requests, pulled.result),
             cache |-> pulled.cache]
        returned(heads, result) ==
            [call |-> Call(cache, heads, <<>>, result), cache |-> cache]
    IN IF cache = None THEN from_server(<<>>)
       ELSE IF ~head(server).ok
       THEN returned(head(server).heads, FetchErr("Request"))
       ELSE IF server.last_modified = None THEN from_server(head(server).heads)
       ELSE IF ~server.last_modified[1].valid
       THEN returned(head(server).heads, FetchErr("InvalidDate"))
       ELSE IF server.last_modified[1].date > cache[1].modified
       THEN from_server(head(server).heads)
       ELSE returned(head(server).heads, FetchOk(cache[1].content))

\* manifest_from_server_only at time now
manifest_from_server_only(server, io, cache, now) ==
    LET pulled == get_manifest(server, io, cache, now)
    IN [call |-> Call(cache, <<>>, pulled.requests, pulled.result),
        cache |-> pulled.cache]

\* mutant of Reparsed: the manifest of the second fetch is not parsed
ReparsedUnchecked(content) == FetchOk(content)

\* Ok(Self::new(server_url, ManifestMetadata::new(&manifest)?))
Reparsed(content) ==
    IF ManifestMetadataNew(content) THEN FetchOk(content) ELSE FetchErr("Lua")

\* the loads of one behaviour: where from_config is, the server, what the
\* writes of the cache file do, the cache file, the clock, the number of the
\* load, the first call of this load and of the load before, the calls of
\* manifest_from_server_only of this load, and the result
Config(pc_, server, io, cache, now, loads, call, previous, reloads, result) ==
    [pc |-> pc_, server |-> server, io |-> io, cache |-> cache, now |-> now,
     loads |-> loads, call |-> call, previous |-> previous, reloads |-> reloads,
     result |-> result]

InitConfig ==
    /\ lock = EmptyLock
    /\ lastOp = Op("new", NoPkg, NoPkg, EmptyLock)
    /\ syncPc = "init"
    /\ syncReqs = <<>>
    /\ syncOut = NoSyncSpec
    /\ SessionIdle
    /\ query = NoQuery
    /\ \E server \in ConfigServers, io \in {"Ok", "write fails"},
          cache \in {None} \cup {Some(CacheFile(content, modified)) :
                                    content \in {"manifest 0", "no lua"},
                                    modified \in 0..1} :
          fetch = Config("start", server, io, cache, 1, 1, NoCall, NoCall, <<>>, None)
    /\ InstallIdle

\* crate::manifest::manifest_from_cache_or_server(..).await?
ManifestFromCacheOrServer ==
    /\ fetch.pc = "start"
    /\ LET loaded == manifest_from_cache_or_server(fetch.server, fetch.io,
                                                   fetch.cache, fetch.now)
       IN fetch' = [fetch EXCEPT
                       !.call = loaded.call,
                       !.cache = loaded.cache,
                       !.pc = IF loaded.call.result.tag = "Ok" THEN "loaded" ELSE "returned",
                       !.result = IF loaded.call.result.tag = "Ok" THEN None
                                  ELSE loaded.call.result]
    /\ UNCHANGED <<lockVars, syncVars, sessionVars, readVars, installVars>>

\* match ManifestMetadata::new(&content)
ParseLoaded ==
    /\ fetch.pc = "loaded"
    /\ fetch' = IF ManifestMetadataNew(fetch.call.result.manifest)
                THEN [fetch EXCEPT !.pc = "returned", !.result = fetch.call.result]
                ELSE [fetch EXCEPT !.pc = "server_only"]
    /\ UNCHANGED <<lockVars, syncVars, sessionVars, readVars, installVars>>

\* Err(_) => crate::manifest::manifest_from_server_only(..).await?
ManifestFromServerOnly ==
    /\ fetch.pc = "server_only"
    /\ LET loaded == manifest_from_server_only(fetch.server, fetch.io,
                                               fetch.cache, fetch.now)
       IN fetch' = [fetch EXCEPT
                       !.reloads = Append(@, loaded.call),
                       !.cache = loaded.cache,
                       !.pc = IF loaded.call.result.tag = "Ok" THEN "reloaded" ELSE "returned",
                       !.result = IF loaded.call.result.tag = "Ok" THEN None
                                  ELSE loaded.call.result]
    /\ UNCHANGED <<lockVars, syncVars, sessionVars, readVars, installVars>>

ParseReloaded ==
    /\ fetch.pc = "reloaded"
    /\ fetch' = [fetch EXCEPT
                    !.pc = "returned",
                    !.result = Reparsed(fetch.reloads[Len(fetch.reloads)].result.manifest)]
    /\ UNCHANGED <<lockVars, syncVars, sessionVars, readVars, installVars>>

\* the next call of Manifest::from_config, later on the clock
FromConfig ==
    /\ fetch.pc = "returned"
    /\ fetch.loads < MaxLoads
    /\ fetch.now < MaxTime
    /\ fetch' = [fetch EXCEPT !.pc = "start", !.now = @ + 1, !.loads = @ + 1,
                              !.previous = fetch.call, !.call = NoCall,
                              !.reloads = <<>>, !.result = None]
    /\ UNCHANGED <<lockVars, syncVars, sessionVars, readVars, installVars>>

NextConfig ==
    \/ ManifestFromCacheOrServer
    \/ ParseLoaded
    \/ ManifestFromServerOnly
    \/ ParseReloaded
    \/ FromConfig

-----------------------------------------------------------------------------
(* SpecFind: one query of Manifest::find on a repository; query holds the  *)
(* repository and, once find has returned, the query and its result.       *)

\* longest list of rock types of one version of the manifest
MaxTypes == 2

\* RemotePackageType, in the order of its Ord
RemotePackageTypes == <<"Rockspec", "Src", "Binary">>

\* RemotePackageTypeFilterSpec
Filters == [rockspec : BOOLEAN, src : BOOLEAN, binary : BOOLEAN]

\* the versions the manifest holds of a package
FindVersions == {"1.0-1", "2.0-1"}

\* ManifestMetadata::repository: to each name the rock types of each of its
\* versions
Repositories ==
    {[name \in {"lua"} |-> rock_types] :
        rock_types \in UNION {[versions -> SeqsUpTo(Range(RemotePackageTypes), MaxTypes)] :
                                 versions \in SUBSET FindVersions}}

FindReqs ==
    {PackageReq(name, version_req) :
        name \in {"lua", "say"}, version_req \in {ReqAny, ">=1.0", "<2.0"}}

\* ManifestMetadata::has_rock
manifest_has_rock(repository, rock_name) == rock_name \in DOMAIN repository

\* the closure of filter_map: the booleans of the filter
include(filter, rock_type) ==
    IF rock_type = "Rockspec" THEN filter.rockspec
    ELSE IF rock_type = "Src" THEN filter.src
    ELSE filter.binary

\* Ord::cmp on the positions of two values in the order of their type
cmp(a, b) == IF a < b THEN "Less" ELSE IF a > b THEN "Greater" ELSE "Equal"

\* mutant of Compare: the rock types are compared before the versions
CompareTypeFirst(a, b) ==
    IF cmp(Position(RemotePackageTypes, a[2]), Position(RemotePackageTypes, b[2])) = "Equal"
    THEN cmp(Position(Versions, a[1]), Position(Versions, b[1]))
    ELSE cmp(Position(RemotePackageTypes, a[2]), Position(RemotePackageTypes, b[2]))

\* the closure of max_by: version_a.cmp(version_b), then type_a.cmp(type_b)
Compare(a, b) ==
    IF cmp(Position(Versions, a[1]), Position(Versions, b[1])) = "Equal"
    THEN cmp(Position(RemotePackageTypes, a[2]), Position(RemotePackageTypes, b[2]))
    ELSE cmp(Position(Versions, a[1]), Position(Versions, b[1]))

\* Iterator::max_by on the first n items: the last of the greatest
RECURSIVE max_by(_, _)
max_by(items, n) ==
    IF n = 0 THEN None
    ELSE IF n = 1 THEN Some(items[1])
    ELSE IF Compare(max_by(items, n - 1)[1], items[n]) = "Greater"
    THEN max_by(items, n - 1)
    ELSE Some(items[n])

\* filter and flat_map: the pairs of the versions of `keys`, in their order,
\* that the requirement matches, with the rock types the filter includes
RECURSIVE Filtered(_, _, _, _)
Filtered(rock_types, keys, version_req, filter) ==
    IF keys = <<>> THEN <<>>
    ELSE LET version == keys[1]
             of_version ==
                 IF matches(version_req, version)
                 THEN SelectSeq(rock_types[version],
                                LAMBDA rock_type : include(filter, rock_type))
                 ELSE <<>>
         IN [i \in DOMAIN of_version |-> <<version, of_version[i]>>]
                \o Filtered(rock_types, Tail(keys), version_req, filter)

\* ManifestMetadata::latest_match, the map of the package iterated in the
\* order `keys`
latest_match(repository, lua_package_req, filter, keys) ==
    IF ~manifest_has_rock(repository, lua_package_req.name) THEN None
    ELSE LET items == Filtered(repository[lua_package_req.name], keys,
                               lua_package_req.version_req, filter)
             greatest == max_by(items, Len(items))
         IN IF greatest = None THEN None
            ELSE Some([name |-> lua_package_req.name, version |-> greatest[1][1],
                       rock_type |-> greatest[1][2]])

\* RemotePackageSource of the rock type
RemotePackageSource(package_type) ==
    IF package_type = "Rockspec" THEN "LuarocksRockspec"
    ELSE IF package_type = "Src" THEN "LuarocksSrcRock"
    ELSE "LuarocksBinaryRock"

\* Manifest::find
find(repository, package_req, filter, keys) ==
    LET found == latest_match(repository, package_req, filter, keys)
    IN IF found = None THEN None
       ELSE Some([name |-> found[1].name, version |-> found[1].version,
                  source |-> RemotePackageSource(found[1].rock_type)])

\* the orders in which a HashMap with the keys `versions` is iterated
KeyOrders(versions) ==
    {keys \in [1..Cardinality(versions) -> versions] : Range(keys) = versions}

InitFind ==
    /\ lock = EmptyLock
    /\ lastOp = Op("new", NoPkg, NoPkg, EmptyLock)
    /\ syncPc = "init"
    /\ syncReqs = <<>>
    /\ syncOut = NoSyncSpec
    /\ SessionIdle
    /\ \E repository \in Repositories : query = [op |-> "none", repository |-> repository]
    /\ fetch = NoFetch
    /\ InstallIdle

Find(package_req, filter) ==
    /\ query.op = "none"
    /\ \E keys \in KeyOrders(IF manifest_has_rock(query.repository, package_req.name)
                             THEN DOMAIN query.repository[package_req.name] ELSE {}) :
          query' = [op |-> "find", repository |-> query.repository,
                    package_req |-> package_req, filter |-> filter,
                    result |-> find(query.repository, package_req, filter, keys)]
    /\ UNCHANGED <<lockVars, syncVars, sessionVars, fetchVars, installVars>>

NextFind ==
    \E package_req \in FindReqs, filter \in Filters : Find(package_req, filter)

vars == <<lockVars, syncVars, sessionVars, readVars, fetchVars, installVars>>

SpecLock == InitLock /\ [][NextLock]_vars

SpecSync == InitSync /\ [][NextSync]_vars

SpecInstall == InitInstall /\ [][NextInstall]_vars

SpecRead == InitRead /\ [][NextRead]_vars

SpecManifest == InitManifest /\ [][NextManifest]_vars

SpecBuild == InitBuild /\ [][NextBuild]_vars

SpecNew == InitNew /\ [][NextNew]_vars

SpecConfig == InitConfig /\ [][NextConfig]_vars

SpecFind == InitFind /\ [][NextFind]_vars

-----------------------------------------------------------------------------
(* Claims about the write operations, checked under SpecLock *)

DepsAreRocks(l) ==
    \A id \in RockIds(l) : Range(l.rocks[id].dependencies) \subseteq RockIds(l)

EntrypointsAreRocks(l) == Range(l.entrypoints) \subseteq RockIds(l)

\* C1: after any sequence of write operations on an empty lockfile, every id
\* in some package's dependencies list is a key of rocks.
C1_DependenciesAreRocks == DepsAreRocks(lock)

\* C2: after any sequence of write operations on an empty lockfile, every id
\* in entrypoints is a key of rocks, so that the lookup of an entrypoint in
\* package_sync_spec always finds its rock.
C2_EntrypointsAreRocks ==
    /\ EntrypointsAreRocks(lock)
    /\ \A i \in DOMAIN lock.entrypoints : get(lock, lock.entrypoints[i]) # None

\* C2 witness: a rock that was an entrypoint has been removed while another
\* entrypoint stays.
C2_Witness ==
    /\ lastOp.op \in {"remove", "remove_by_id"}
    /\ is_entrypoint(lastOp.before, PkgId(lastOp.target))
    /\ Len(lock.entrypoints) > 0

\* C3 as stated: right after add(pkg) the entry of pkg's id equals pkg, and
\* no write operation of the session shrinks the set of ids in rocks.
C3_AddThenGetAndMonotone ==
    /\ lastOp.op = "add" => get(lock, PkgId(lastOp.target)) = Some(lastOp.target)
    /\ RockIds(lastOp.before) \subseteq RockIds(lock)

\* C3 amended: right after add(pkg) the lockfile has an entry for pkg's id,
\* which is pkg when the id was absent before and the entry that was there,
\* unchanged, otherwise; add, add_entrypoint, add_dependency and
\* remove_entrypoint never shrink the set of ids, and remove and remove_by_id
\* take away exactly the id they are given.
C3_AddKeepsExistingEntry ==
    LET id == PkgId(lastOp.target)
        before == lastOp.before
    IN /\ lastOp.op = "add" =>
             get(lock, id) = IF id \in RockIds(before) THEN Some(before.rocks[id])
                             ELSE Some(lastOp.target)
       /\ lastOp.op \in {"add", "add_entrypoint", "add_dependency", "remove_entrypoint"}
             => RockIds(before) \subseteq RockIds(lock)
       /\ lastOp.op \in {"remove", "remove_by_id"}
             => RockIds(lock) = RockIds(before) \ {id}

\* C3 witness: add(pkg) on an id whose entry has grown a dependency, so the
\* entry kept differs from pkg.
C3_Witness ==
    /\ lastOp.op = "add"
    /\ PkgId(lastOp.target) \in RockIds(lastOp.before)
    /\ lastOp.before.rocks[PkgId(lastOp.target)] # lastOp.target
    /\ get(lock, PkgId(lastOp.target)) # Some(lastOp.target)

-----------------------------------------------------------------------------
(* Claims about package_sync_spec, checked under SpecSync *)

\* the ids reached from the ids in S along dependencies lists, S included
RECURSIVE Closure(_, _)
Closure(l, S) ==
    LET next == S \cup {d \in RockIds(l) :
                          \E id \in S : d \in Range(l.rocks[id].dependencies)}
    IN IF next = S THEN S ELSE Closure(l, next)

\* the entrypoints whose constraint equals the version requirement of some
\* declared requirement
KeptEntrypoints(l, packages) ==
    {e \in Range(l.entrypoints) \cap RockIds(l) :
        \E i \in DOMAIN packages :
            matches_version_req(PkgConstraint(l.rocks[e]), packages[i].version_req)}

RemovedIds == {PkgId(syncOut.to_remove[i]) : i \in DOMAIN syncOut.to_remove}

KeptIds == RockIds(lock) \ RemovedIds

\* some rock of the requirement's name has a constraint equal to its
\* version requirement
PresentByEqualConstraint(l, req) ==
    \E id \in RockIds(l) :
        /\ l.rocks[id].name = req.name
        /\ matches_version_req(PkgConstraint(l.rocks[id]), req.version_req)

AllDeclaredPresent(l, packages) ==
    \A i \in DOMAIN packages : PresentByEqualConstraint(l, packages[i])

DeclaredEntrypoints(l, packages) ==
    {e \in Range(l.entrypoints) \cap RockIds(l) :
        \E i \in DOMAIN packages :
            /\ l.rocks[e].name = packages[i].name
            /\ matches_version_req(PkgConstraint(l.rocks[e]), packages[i].version_req)}

-----------------------------------------------------------------------------
(* Claims about the resolver and the install run, checked under SpecInstall *)

\* C7: a resolve pass terminates on every finite set of manifests, cyclic
\* ones included: when a package is met a second time on a dependency cycle
\* it is skipped, so no task resolves a package that a task above it in its
\* own chain of calls is resolving with the same arguments. Stated for the
\* tasks that do not force a rebuild, the ones the lockfile guards.
C7_SecondEncounterIsSkipped ==
    \A p \in DOMAIN tasks : tasks[p].spec.build_behaviour = "NoForce" => ~Recurs(p)

\* the tree a task resolves for
TaskTree(p) == TreeOf(p, "packages")

\* C8: the two lockfiles are never mixed. Build dependencies and their
\* transitive dependencies are filtered against the build lockfile only and
\* sent on the build-dependencies channel only; the requested packages and
\* their regular dependencies are filtered against the main lockfile only
\* and sent on the regular channel only.
C8_LockfilesAreNotMixed ==
    /\ \A c \in checks :
          c.lockfile = IF c.tree = "build" THEN "build_lockfile" ELSE "lockfile"
    /\ \A e \in emitted :
          e.channel = IF TaskTree(e.task) = "build" THEN "build_dependencies"
                      ELSE "dependencies"

\* C8 happens: a regular dependency of a build dependency, installed
\* according to the main lockfile and absent from the build lockfile, is
\* resolved and sent on the build-dependencies channel, while the requested
\* package is sent on the regular channel.
C8_Witness ==
    /\ \E e \in emitted :
          /\ TaskTree(e.task) = "build"
          /\ e.task[Len(e.task)].call = "dependencies"
          /\ tasks[e.task].spec.build_behaviour = "NoForce"
          /\ has_rock(lock, tasks[e.task].spec.package) # None
          /\ has_rock(buildLock, tasks[e.task].spec.package) = None
          /\ e.channel = "build_dependencies"
    /\ \E e \in emitted : TaskTree(e.task) = "main" /\ e.channel = "dependencies"
    /\ \E c \in checks : c.tree = "build"
    /\ \E c \in checks : c.tree = "main"

\* C9: two tasks that resolve the same package id in parallel for the same
\* tree both succeed and send equal install specs. Stated for the runs in
\* which no task fails.
C9_SameIdSameInstallSpec ==
    \A e \in emitted, f \in emitted :
        /\ failures = 0
        /\ e.channel = f.channel
        /\ PkgId(e.install_spec.spec) = PkgId(f.install_spec.spec)
        /\ ~IsAncestor(e.task, f.task)
        /\ ~IsAncestor(f.task, e.task)
        => e.install_spec = f.install_spec

\* C10: when the resolve task or the build task of a package fails, by an
\* error or by a panic, the install run does not return Ok.
C10_FailureIsReported ==
    (\/ \E p \in DOMAIN tasks : tasks[p].result \in {Err, JoinError}
     \/ \E id \in DOMAIN builds : builds[id] \in {Err, JoinError})
        => pc # "returned"

-----------------------------------------------------------------------------
(* Claims about the end of a write session, checked under SpecLock *)

\* C11: when the flush at the end of a write session fails, the caller of the
\* session is handed the error: a session that has ended with a failed write
\* of the lockfile has reported Err
C11_FlushFailureIsObservable ==
    (session.guard \in {"dropped", "returned"} /\ session.io = "Err") => session.seen = "Err"

-----------------------------------------------------------------------------
(* Claims about the read operations and the ids, checked under SpecRead *)

\* the rocks of l with the name and the version of package
SameNameAndVersion(l, package) ==
    {l.rocks[id] : id \in {i \in RockIds(l) : /\ l.rocks[i].name = package.name
                                              /\ l.rocks[i].version = package.version}}

\* C12: validate_integrity(package) returns Ok only if some entry of the
\* lockfile has the package's name and version and both of its integrities;
\* with no entry of that name and version it returns PackageNotFound, with
\* entries that all differ in the rockspec integrity it returns
\* RockspecIntegrityMismatch, with entries that all have the rockspec
\* integrity and differ in the source integrity it returns
\* SourceIntegrityMismatch; the lockfile is as it was.
C12_ValidateIntegrity ==
    query.op = "validate_integrity" =>
        LET package == query.arg
            entries == SameNameAndVersion(query.lock, package)
            tag == query.result.tag
        IN /\ tag = "Ok" => \E rock \in entries : rock.hashes = package.hashes
           /\ entries = {} => tag = "PackageNotFound"
           /\ (entries # {} /\ \A rock \in entries :
                    rock.hashes.rockspec # package.hashes.rockspec)
                 => tag = "RockspecIntegrityMismatch"
           /\ (entries # {} /\ \A rock \in entries :
                    /\ rock.hashes.rockspec = package.hashes.rockspec
                    /\ rock.hashes.source # package.hashes.source)
                 => tag = "SourceIntegrityMismatch"
           /\ query.after = query.lock

\* C12 witness: the rockspec integrity of the entry is the package's and the
\* source integrity is not
C12_Witness ==
    /\ query.op = "validate_integrity"
    /\ query.result.tag = "SourceIntegrityMismatch"
    /\ query.result.expected # query.arg.hashes.source
    /\ Cardinality(RockIds(query.lock)) = MaxRocks

\* the ids of the rocks of l that req matches by name and version
Matching(l, req) ==
    {id \in RockIds(l) : /\ l.rocks[id].name = req.name
                         /\ matches(req.version_req, l.rocks[id].version)}

\* the ids a RockMatches holds
Yielded(result) ==
    IF result.tag = "Single" THEN {result.id}
    ELSE IF result.tag = "Many" THEN Range(result.ids)
    ELSE {}

\* Ord for PackageVersion on the versions of the model
Newer(v, w) == Position(Versions, v) > Position(Versions, w)

\* C13 as stated: match_rocks(req) yields at most one id, and the id it
\* yields is the newest version among the entries that match req.
C13_AtMostOneNewest ==
    query.op = "match_rocks" =>
        LET l == query.lock
            ids == Yielded(query.result)
        IN /\ Cardinality(ids) <= 1
           /\ \A id \in ids :
                 /\ id \in Matching(l, query.arg)
                 /\ \A other \in Matching(l, query.arg) :
                        ~Newer(l.rocks[other].version, l.rocks[id].version)

\* C13 amended: match_rocks(req) is NotFound when no entry matches req by
\* name and version, Single(id) when exactly one does, and Many(ids) holding
\* the id of every matching entry once when two or more do.
C13_YieldsEveryMatch ==
    query.op = "match_rocks" =>
        LET found == Matching(query.lock, query.arg)
            result == query.result
        IN /\ result.tag = "NotFound" <=> found = {}
           /\ result.tag = "Single" <=> Cardinality(found) = 1
           /\ result.tag = "Many" <=> Cardinality(found) >= 2
           /\ Yielded(result) = found
           /\ result.tag = "Many" => Len(result.ids) = Cardinality(found)

\* C13 witness: two installed versions match the requirement
C13_Witness ==
    /\ query.op = "match_rocks"
    /\ query.result.tag = "Many"
    /\ \E id \in Yielded(query.result), other \in Yielded(query.result) :
          Newer(query.lock.rocks[id].version, query.lock.rocks[other].version)

\* what LocalPackageId::new is given for a package
IdTuple(package) ==
    <<package.name, package.version, package.pinned, package.opt, PkgConstraint(package)>>

\* C14: packages with the same LocalPackageId have the same name, version,
\* pinned, opt and constraint: after add(pkg) the entry under pkg's id has
\* pkg's tuple.
C14_SameIdSamePackage ==
    lastOp.op = "add" =>
        IdTuple(lock.rocks[PkgId(lastOp.target)]) = IdTuple(lastOp.target)

-----------------------------------------------------------------------------
(* Claims about get_manifest, checked under SpecManifest *)

\* C15: when get_manifest has returned, a 4xx answer to the .zip URL was
\* followed by exactly one request, for the unzipped URL, and when that
\* request gave a 2xx text body and the cache file could be written, the
\* body is the result and the content of the cache file; after any other
\* answer to the .zip URL no second request was sent; a 5xx, a network
\* error and a failed unzipped request are returned as an error.
C15_OnlyFallbackIsUnzipped ==
    fetch.pc = "returned" =>
        LET zipped == fetch.server.zipped
            unzipped == fetch.server.unzipped
            client_error == zipped.kind = "response" /\ zipped.status \in 400..499
            failed(response) == response.kind = "network" \/ response.status \in 400..599
        IN /\ client_error =>
                 /\ fetch.requests = <<Url("manifest-5.1", 1), Url("manifest-5.1", 0)>>
                 /\ (~failed(unzipped) /\ unzipped.body # "not utf8" /\ fetch.io = "Ok")
                       => /\ fetch.result = FetchOk(unzipped.body)
                          /\ fetch.target = Some(unzipped.body)
                 /\ failed(unzipped) => fetch.result.tag = "Err"
           /\ ~client_error =>
                 /\ fetch.requests = <<Url("manifest-5.1", 1)>>
                 /\ failed(zipped) => fetch.result.tag = "Err"

\* C15 witness: a 404 for the .zip URL, the manifest from the unzipped URL
C15_Witness ==
    /\ fetch.pc = "returned"
    /\ fetch.server.zipped = Response(404, "")
    /\ Len(fetch.requests) = 2
    /\ fetch.result = FetchOk("manifest B")
    /\ fetch.target = Some("manifest B")

-----------------------------------------------------------------------------
(* Claims about the lockfile an install run writes, checked under SpecInstall *)

\* lockfile.add_dependency(pkg, installed_packages.get(dependency_id)) for
\* every dependency of the install spec, in their order
RECURSIVE DependenciesAdded(_, _, _, _)
DependenciesAdded(l, pkg, installed, dependencies) ==
    IF dependencies = <<>> THEN l
    ELSE DependenciesAdded(add_dependency(l, pkg, installed[Head(dependencies)]),
                           pkg, installed, Tail(dependencies))

\* installed_packages.iter().for_each: every package and its dependencies
\* are written to the lockfile, in the order ids
RECURSIVE LockfileAfter(_, _, _, _)
LockfileAfter(l, packages, installed, ids) ==
    IF ids = <<>> THEN l
    ELSE LET id == Head(ids)
         IN LockfileAfter(DependenciesAdded(add(l, installed[id]), installed[id], installed,
                                            packages[id].spec.dependencies),
                          packages, installed, Tail(ids))

\* install_impl from the receipt of the install specs on, with every build
\* returning its package: the lockfile it leaves, or the panic of the
\* expect on a dependency that was not installed
InstallRun(l, messages) ==
    LET packages == Received(messages)
        installed == [id \in DOMAIN packages |-> Built(packages[id])]
    IN IF \E id \in DOMAIN packages :
             ~(Range(packages[id].spec.dependencies) \subseteq DOMAIN installed)
       THEN [outcome |-> "panicked", lockfile |-> l]
       ELSE [outcome |-> "returned",
             lockfile |-> LockfileAfter(l, packages, installed, SetToSeq(DOMAIN packages))]

\* the orders in which the install specs sent on the dependencies channel
\* can arrive: a task sends after the tasks it has joined, tasks that are
\* not joined by one another send in any order
ArrivalOrders ==
    LET sent == {e \in emitted : e.channel = "dependencies"}
        n == Cardinality(sent)
    IN {order \in [1..n -> sent] :
          /\ \A i \in 1..n, j \in 1..n : i # j => order[i] # order[j]
          /\ \A i \in 1..n, j \in 1..n :
                IsAncestor(order[i].task, order[j].task) => j < i}

\* the install specs in the order they arrive
Messages(order) == [i \in DOMAIN order |-> order[i].install_spec]

\* C16: once the resolver has returned without a failure, the lockfile the
\* run writes is the same for every order in which the install specs can
\* have arrived on the channel.
C16_LockfileIsDetermined ==
    (pc = "resolved" /\ failures = 0) =>
        \A order \in ArrivalOrders :
            InstallRun(lock, Messages(order)) = InstallRun(lock, channels["dependencies"])

\* C17: no task is spawned - nothing is downloaded, no install spec is sent -
\* for a requirement that is not Force and that has a matching rock in the
\* lockfile its call is filtered against; and when a run of requirements
\* that are not Force has returned without a failure, the filter of a
\* second resolve of the same requirements keeps none of them.
C17_InstalledIsSkipped ==
    /\ pc \in {"resolve", "resolved"} =>
          \A p \in DOMAIN tasks :
              tasks[p].spec.build_behaviour = "NoForce"
                  => has_rock(LockfileOf(tasks[p].args.lockfile), tasks[p].spec.package) = None
    /\ (/\ pc = "returned"
        /\ failures = 0
        /\ \A i \in DOMAIN requested : requested[i].build_behaviour = "NoForce")
          => NotInstalled(TopResolve, requested) = <<>>

\* C17 witness: a run without Force has written what it resolved, and a
\* dependency that was installed before the run was skipped
C17_Witness ==
    /\ pc = "returned"
    /\ failures = 0
    /\ \A i \in DOMAIN requested : requested[i].build_behaviour = "NoForce"
    /\ emitted # {}
    /\ \E p \in DOMAIN tasks :
          /\ manifest[tasks[p].spec.package.name].dependencies # <<>>
          /\ tasks[p].dependencies = 0
          /\ tasks[p].result.tag = "Ok"
    /\ NotInstalled(TopResolve, requested) = <<>>

-----------------------------------------------------------------------------
(* Claims about what a sync spec keeps, checked under SpecSync *)

\* C18: every declared requirement is in to_add, or some rock of its name
\* with a constraint equal to its version requirement is not in to_remove.
C18_DeclaredStaySatisfied ==
    syncPc = "returned" =>
        \A i \in DOMAIN syncReqs :
            \/ \E j \in DOMAIN syncOut.to_add : syncOut.to_add[j] = syncReqs[i]
            \/ \E id \in KeptIds :
                  /\ lock.rocks[id].name = syncReqs[i].name
                  /\ matches_version_req(PkgConstraint(lock.rocks[id]),
                                         syncReqs[i].version_req)

\* C19: an entrypoint that is not in to_remove is named by a declared
\* requirement whose version requirement equals its constraint; an
\* entrypoint whose name no declared requirement has is in to_remove.
C19_KeptEntrypointsAreDeclared ==
    syncPc = "returned" =>
        \A e \in Range(lock.entrypoints) :
            /\ e \in KeptIds => e \in DeclaredEntrypoints(lock, syncReqs)
            /\ (\A i \in DOMAIN syncReqs : syncReqs[i].name # lock.rocks[e].name)
                  => e \in RemovedIds

-----------------------------------------------------------------------------
(* Claims about the dependencies of an install spec, checked under SpecInstall *)

\* the id of the package that the requirement dep of a rockspec resolves to
\* under the install spec that declares it
DependencyId(install_spec, dep) ==
    LocalPackageIdNew(dep.name, Version, install_spec.pin, install_spec.opt,
                      LockConstraintFrom(dep.version_req))

\* C20: with no failure, every install spec sent lists in its dependencies
\* the id of every dependency its rockspec declares, those that were
\* skipped as installed included.
C20_DependenciesAreListed ==
    \A e \in emitted :
        failures = 0 =>
            \A i \in DOMAIN manifest[e.install_spec.spec.name].dependencies :
                DependencyId(e.install_spec,
                             manifest[e.install_spec.spec.name].dependencies[i])
                    \in Range(e.install_spec.spec.dependencies)

-----------------------------------------------------------------------------
(* Claims about the entry type of a dependency, checked under SpecInstall *)

\* some entrypoint of l is a rock of the name of req with a version req admits
EntrypointFor(l, req) ==
    \E i \in DOMAIN l.entrypoints :
        /\ get(l, l.entrypoints[i]) # None
        /\ l.rocks[l.entrypoints[i]].name = req.name
        /\ matches(req.version_req, l.rocks[l.entrypoints[i]].version)

\* the task that spawned the task p
Parent(p) == SubSeq(p, 1, Len(p) - 1)

-----------------------------------------------------------------------------
(* Claims about the walk of package_sync_spec, checked under SpecSync *)

\* C22: package_sync_spec comes to an end on every body: the walk of
\* get_all_dependencies never recurses without end, whether the
\* dependencies lists hold a cycle or a rock that lists itself.
C22_SyncSpecTerminates ==
    syncPc # "overflow"

-----------------------------------------------------------------------------
(* Claims about the lockfile of a project tree, checked under SpecBuild *)

\* the rocks the walk of the dependencies lists reaches from id in at most
\* n steps
RECURSIVE ReachableFrom(_, _, _)
ReachableFrom(l, ids, n) ==
    IF n = 0 THEN ids
    ELSE ReachableFrom(l, ids \cup UNION {Range(l.rocks[id].dependencies) :
                                              id \in ids \cap RockIds(l)}, n - 1)

\* id is reached from one of its own dependencies
OnCycle(l, id) ==
    id \in ReachableFrom(l, Range(l.rocks[id].dependencies), Cardinality(RockIds(l)))

\* C23: after any sequence of project builds, a rebuild of a package that
\* is already an entrypoint included, no package lists its own id in its
\* dependencies and no package is reached from its own dependencies.
C23_BuildsKeepDependenciesAcyclic ==
    \A id \in RockIds(lock) : ~OnCycle(lock, id)

-----------------------------------------------------------------------------
(* Claims about the entrypoints list, checked under SpecLock *)

\* C30: once remove_entrypoint(p) has returned, p is no entrypoint
\* (is_entrypoint(p.id) is false), whatever calls of add_entrypoint came
\* before it.
C30_RemovedIsNoEntrypoint ==
    lastOp.op = "remove_entrypoint" => ~is_entrypoint(lock, PkgId(lastOp.target))

-----------------------------------------------------------------------------
(* Claims about the order of the lockfile step, checked under SpecInstall *)

\* the calls add_dependency(pkg, child) the last turn of the lockfile step
\* has made, each with the lockfile it was made on
AddDependencyCalls ==
    LET pkg == lastOp.target
        dependencies == all_packages[PkgId(pkg)].spec.dependencies
        made == {n \in DOMAIN dependencies :
                    \A m \in 1..n : dependencies[m] \in DOMAIN installed_packages}
    IN {[parent |-> PkgId(pkg), child |-> dependencies[n],
         lockfile |-> Written(lastOp.before, pkg, dependencies, n - 1)] : n \in made}

\* C24: in the lockfile step after the builds, add_dependency(parent, child)
\* is called only on a lockfile that already holds both the parent and the
\* child.
C24_DependencyAddedAfterBoth ==
    lastOp.op = "install" =>
        \A call \in AddDependencyCalls :
            /\ call.parent \in RockIds(call.lockfile)
            /\ call.child \in RockIds(call.lockfile)

-----------------------------------------------------------------------------
(* Claims about the creation of the lockfile, checked under SpecNew *)

\* C25: when callers run Lockfile::new at once on a path that holds no file,
\* with the same layout and with no write that fails, every caller that has
\* returned was handed the empty lockfile: none has read an empty or partly
\* written file.
C25_EveryCallerGetsTheEmptyLockfile ==
    (/\ \A c, d \in Callers : session[c].rock_layout = session[d].rock_layout
     /\ \A c \in Callers : session[c].result # LockfileError("Create"))
        => \A c \in Callers :
               session[c].pc = "returned" =>
                   /\ session[c].result.tag = "Ok"
                   /\ session[c].result.lock = EmptyLock

-----------------------------------------------------------------------------
(* Claims about the loads of the manifest, checked under SpecConfig *)

\* manifest_from_cache_or_server has run in the load at hand
Loaded == fetch.pc # "start"

\* the call found a cache file and its HEAD request was answered without an
\* error status
CacheAndHead(call) == call.cache # None /\ head(fetch.server).ok

\* the call found a cache file and its HEAD request was answered with a
\* Last-Modified header that holds a date
CacheAndDate(call) ==
    /\ CacheAndHead(call)
    /\ fetch.server.last_modified # None
    /\ fetch.server.last_modified[1].valid

\* the call has sent a GET request
SentGet(call) == call.requests # <<>>

\* C26: with a cache file and a Last-Modified header on the HEAD response,
\* the manifest is downloaded only if the server's date is strictly newer
\* than the modification time of the cache file, the content of the cache
\* file is returned without a download otherwise, and a load that follows a
\* load with the same Last-Modified downloads nothing and returns the same
\* content.
C26_DownloadOnlyWhenNewer ==
    (Loaded /\ CacheAndDate(fetch.call)) =>
        /\ SentGet(fetch.call) <=>
              fetch.server.last_modified[1].date > fetch.call.cache[1].modified
        /\ ~SentGet(fetch.call) =>
              fetch.call.result = FetchOk(fetch.call.cache[1].content)
        /\ (/\ fetch.loads > 1
            /\ CacheAndDate(fetch.previous)
            /\ fetch.previous.result.tag = "Ok"
            /\ ManifestMetadataNew(fetch.previous.result.manifest))
               => /\ ~SentGet(fetch.call)
                  /\ fetch.call.result = fetch.previous.result

\* C27: with a cache file and a HEAD response that carries no Last-Modified
\* header, the content of the cache file is returned and nothing is
\* downloaded; a download without a HEAD request before it happens only when
\* there is no cache file.
C27_NoDateServesTheCache ==
    Loaded =>
        /\ (CacheAndHead(fetch.call) /\ fetch.server.last_modified = None) =>
              /\ ~SentGet(fetch.call)
              /\ fetch.call.result = FetchOk(fetch.call.cache[1].content)
        /\ (SentGet(fetch.call) /\ fetch.call.heads = <<>>) => fetch.call.cache = None

\* the manifest the first call of the load returned parses
LoadedParses ==
    /\ fetch.call.result.tag = "Ok"
    /\ ManifestMetadataNew(fetch.call.result.manifest)

\* C28: when the manifest loaded by from_config does not parse, the
\* manifest is fetched once more from the server, without a look at the
\* cache, and once only; an error of that fetch, or of the parse of what it
\* fetched, is what from_config returns. When the loaded manifest parses, or
\* the load itself failed, no further fetch is made.
C28_OneFetchAfterParseFailure ==
    fetch.pc = "returned" =>
        IF fetch.call.result.tag = "Err"
        THEN fetch.reloads = <<>> /\ fetch.result = fetch.call.result
        ELSE IF LoadedParses
        THEN fetch.reloads = <<>> /\ fetch.result = fetch.call.result
        ELSE /\ Len(fetch.reloads) = 1
             /\ fetch.reloads[1].heads = <<>>
             /\ SentGet(fetch.reloads[1])
             /\ fetch.result =
                   IF fetch.reloads[1].result.tag = "Err" THEN fetch.reloads[1].result
                   ELSE IF ManifestMetadataNew(fetch.reloads[1].result.manifest)
                   THEN fetch.reloads[1].result
                   ELSE FetchErr("Lua")

\* from_config has returned the error of the parse of the second fetch
C28_Witness ==
    /\ fetch.pc = "returned"
    /\ Len(fetch.reloads) = 1
    /\ fetch.reloads[1].result.tag = "Ok"
    /\ fetch.result = FetchErr("Lua")

-----------------------------------------------------------------------------
(* Claims about the query of the manifest, checked under SpecFind *)

\* the pairs of a version and a rock type of the package of the query that
\* the requirement matches and the filter includes
Candidates ==
    IF ~manifest_has_rock(query.repository, query.package_req.name) THEN {}
    ELSE {pair \in FindVersions \X Range(RemotePackageTypes) :
             /\ pair[1] \in DOMAIN query.repository[query.package_req.name]
             /\ pair[2] \in Range(query.repository[query.package_req.name][pair[1]])
             /\ matches(query.package_req.version_req, pair[1])
             /\ include(query.filter, pair[2])}

\* the rock type a RemotePackageSource stands for
TypeOfSource(source) ==
    IF source = "LuarocksRockspec" THEN "Rockspec"
    ELSE IF source = "LuarocksSrcRock" THEN "Src"
    ELSE "Binary"

\* pair a is greater than pair b: its version is newer, or is the same and
\* its rock type is later in Rockspec < Src < Binary
GreaterPair(a, b) ==
    \/ Newer(a[1], b[1])
    \/ (a[1] = b[1] /\ Position(RemotePackageTypes, a[2]) > Position(RemotePackageTypes, b[2]))

\* C29: find(req, filter) returns a version and a rock type of the package
\* of req such that req matches the version and the filter includes the
\* rock type, and no other such pair is greater in the order of the version
\* and then of Rockspec < Src < Binary; it returns nothing exactly when
\* there is no such pair.
C29_FindReturnsTheGreatest ==
    query.op = "find" =>
        IF Candidates = {} THEN query.result = None
        ELSE /\ query.result # None
             /\ query.result[1].name = query.package_req.name
             /\ <<query.result[1].version, TypeOfSource(query.result[1].source)>> \in Candidates
             /\ \A pair \in Candidates :
                   ~GreaterPair(pair, <<query.result[1].version,
                                        TypeOfSource(query.result[1].source)>>)

\* find has returned the source rock of the newer version although the
\* older version has a binary rock
C29_Witness ==
    /\ query.op = "find"
    /\ query.result # None
    /\ query.result[1].version = "2.0-1"
    /\ query.result[1].source = "LuarocksSrcRock"
    /\ <<"1.0-1", "Binary">> \in Candidates
    /\ <<"2.0-1", "Rockspec">> \in Candidates

=============================================================================
